---- MODULE Spec2Model ----
(***************************************************************************)
(* A model of the five Streamlit feature pages of the Mistral agents demo  *)
(* (code interpreter, web search, agent orchestration, function calls,     *)
(* image generation): the per-feature conversation histories kept in       *)
(* st.session_state, the remote calls a page handler issues, and the       *)
(* normalisation of the response payloads into history turns.              *)
(*                                                                         *)
(* Representation of Python values:                                        *)
(*   - a str is a TLA+ string ("a" \o "b" = "ab");                         *)
(*   - a list is a sequence;                                               *)
(*   - an object or a dict is a record holding the field "shape" ("obj"    *)
(*     for an attribute-bearing object, "dict" for a key/value mapping)    *)
(*     and exactly the attributes/keys it has: hasattr(o, "f") is          *)
(*     "f" \in DOMAIN o for an object, d.get("f", dflt) reads the key or   *)
(*     the default;                                                        *)
(*   - the content of a message output is tagged with its Python type:     *)
(*     [kind |-> "str", str |-> s], [kind |-> "list", items |-> l] or      *)
(*     [kind |-> "none"];                                                  *)
(*   - None is the value None below.                                       *)
(* One run of a page handler (one Streamlit script run with the page's     *)
(* button pressed) is one action: the application is single-threaded.      *)
(***************************************************************************)
EXTENDS Integers, Sequences, FiniteSets, TLC

VARIABLES
    api_key,    \* st.session_state.api_key
    hist,       \* the five st.session_state.<feature>_history lists
    event,      \* the widget event of the latest script run: page, widget key, inputs
    calls,      \* the remote calls of the latest script run, with their results
    st_errors   \* the st.error banners of the latest script run

vars == <<api_key, hist, event, calls, st_errors>>

None == "None"

Features == {"code", "web", "orch", "func", "image"}

(***************************************************************************)
(* Python attribute and key access.                                        *)
(***************************************************************************)
HasAttr(o, a) == o.shape = "obj" /\ a \in DOMAIN o

HasGet(o) == o.shape = "dict"

Get(o, k, dflt) == IF k \in DOMAIN o THEN o[k] ELSE dflt

Truthy(v) == v # None /\ v # ""

(***************************************************************************)
(* History turns.                                                          *)
(***************************************************************************)
UserTurn(prompt) == [role |-> "user", content |-> prompt]

\* ErrorText without the "Error: " prefix.
ErrorTextBare(msg) == msg

ErrorText(msg) == "Error: " \o msg

(***************************************************************************)
(* Remote calls, as the log keeps them.                                    *)
(***************************************************************************)
CreateCall(name, res) == [op |-> "create", name |-> name, res |-> res]

\* StartCall with the agent the service created first, whatever agent is passed.
StartCallFirstAgent(agent_id, inputs, res) ==
    [op |-> "start", agent_id |-> "ag-A1", inputs |-> inputs, res |-> res]

StartCall(agent_id, inputs, res) ==
    [op |-> "start", agent_id |-> agent_id, inputs |-> inputs, res |-> res]

(***************************************************************************)
(* Exceptions of the loops over response.outputs.                          *)
(***************************************************************************)
NoContentMsg == "object has no attribute 'content'"

\* Every page reads "output.content" of a message output without a hasattr
\* check: the first message output without the attribute raises AttributeError,
\* which ends the loop. [raised, msg] or [raised |-> FALSE].
RECURSIVE MessageRaise(_)
MessageRaise(outputs) ==
    IF outputs = <<>> THEN [raised |-> FALSE]
    ELSE IF /\ HasAttr(Head(outputs), "type")
            /\ Head(outputs).type = "message.output"
            /\ ~HasAttr(Head(outputs), "content")
         THEN [raised |-> TRUE, msg |-> NoContentMsg]
         ELSE MessageRaise(Tail(outputs))

(***************************************************************************)
(* Code interpreter page.                                                  *)
(***************************************************************************)
CodeAgentName == "Code Interpreter Agent"

\* The text one sub-item of a list content adds.
CodeItemText(item) ==
    IF HasGet(item)
    THEN IF Get(item, "type", None) = "text" THEN Get(item, "text", "") ELSE ""
    ELSE IF HasAttr(item, "type") /\ item.type = "text"
         THEN IF HasAttr(item, "text") THEN item.text ELSE ""
         ELSE ""

RECURSIVE CodeListText(_)
CodeListText(items) ==
    IF items = <<>> THEN ""
    ELSE CodeItemText(Head(items)) \o CodeListText(Tail(items))

\* CodeBlockOf reading code and code_output by attribute only.
CodeBlockOfAttributes(output) ==
    IF HasAttr(output, "name") /\ output.name = "code_interpreter" /\ HasAttr(output, "info")
    THEN LET info == output.info
             code == IF HasAttr(info, "code") THEN info.code ELSE ""
             code_output == IF HasAttr(info, "code_output") THEN info.code_output ELSE ""
         IN  << [code |-> code, output |-> code_output] >>
    ELSE <<>>

\* The code block one tool.execution output adds (a sequence of 0 or 1 record).
CodeBlockOf(output) ==
    IF HasAttr(output, "name") /\ output.name = "code_interpreter" /\ HasAttr(output, "info")
    THEN LET info == output.info
             code == IF HasAttr(info, "code") THEN info.code
                     ELSE IF HasGet(info) /\ Truthy(Get(info, "code", None))
                          THEN info.code ELSE ""
             code_output == IF HasAttr(info, "code_output") THEN info.code_output
                            ELSE IF HasGet(info) /\ Truthy(Get(info, "code_output", None))
                                 THEN info.code_output ELSE ""
         IN  << [code |-> code, output |-> code_output] >>
    ELSE <<>>

\* The loop over response.outputs: acc is [text, code_blocks].
RECURSIVE CodeNormalize(_, _)
CodeNormalize(outputs, acc) ==
    IF outputs = <<>> THEN acc
    ELSE LET output == Head(outputs)
             next ==
                 IF HasAttr(output, "type") /\ output.type = "message.output"
                 THEN IF output.content.kind = "str"
                      THEN [acc EXCEPT !.text = @ \o output.content.str]
                      ELSE IF output.content.kind = "list"
                           THEN [acc EXCEPT !.text = @ \o CodeListText(output.content.items)]
                           ELSE acc
                 ELSE IF HasAttr(output, "type") /\ output.type = "tool.execution"
                      THEN [acc EXCEPT !.code_blocks = @ \o CodeBlockOf(output)]
                      ELSE acc
         IN  CodeNormalize(Tail(outputs), next)

CodeAssistantTurn(text, code_blocks) ==
    [role |-> "assistant", content |-> text, code_blocks |-> code_blocks]

\* The submit branch of display_code_interpreter_page, after the prompt check:
\* what is appended to the history, the remote calls made, the banners shown.
CodeRun(prompt, env) ==
    IF ~env.create.ok
    THEN [turns |-> <<>>,
          calls |-> << CreateCall(CodeAgentName, env.create) >>,
          errors |-> << "Failed to create code agent: " \o env.create.msg >>]
    ELSE LET log == << CreateCall(CodeAgentName, env.create),
                       StartCall(env.create.id, prompt, env.start) >>
         IN  IF ~env.start.ok
             THEN [turns |-> << UserTurn(prompt),
                                CodeAssistantTurn(ErrorText(env.start.msg), <<>>) >>,
                   calls |-> log,
                   errors |-> << ErrorText(env.start.msg) >>]
             ELSE LET raise == MessageRaise(env.start.outputs)
                      n == CodeNormalize(env.start.outputs, [text |-> "", code_blocks |-> <<>>])
                  IN  IF raise.raised
                      THEN [turns |-> << UserTurn(prompt),
                                         CodeAssistantTurn(ErrorText(raise.msg), <<>>) >>,
                            calls |-> log,
                            errors |-> << ErrorText(raise.msg) >>]
                      ELSE [turns |-> << UserTurn(prompt),
                                         CodeAssistantTurn(n.text, n.code_blocks) >>,
                            calls |-> log,
                            errors |-> <<>>]

(***************************************************************************)
(* Web search page.                                                        *)
(***************************************************************************)
WebAgentName == "Web Search Agent"

WebSearchTools == {"web_search", "web_search_premium"}

WebItemText(item) ==
    IF HasGet(item)
    THEN IF Get(item, "type", None) = "text" THEN Get(item, "text", "") ELSE ""
    ELSE IF HasAttr(item, "type") /\ item.type = "text" /\ HasAttr(item, "text")
         THEN item.text
         ELSE ""

\* WebItemSource keeping a reference only when it carries a title.
WebItemSourceTitled(item) ==
    IF "title" \notin DOMAIN item THEN <<>>
    ELSE IF "type" \in DOMAIN item /\ item.type = "tool_reference"
            /\ "tool" \in DOMAIN item /\ item.tool \in WebSearchTools
         THEN << [title |-> item.title,
                  url |-> IF "url" \in DOMAIN item THEN item.url ELSE "",
                  source |-> IF "source" \in DOMAIN item THEN item.source ELSE ""] >>
         ELSE <<>>

\* The source record one sub-item of a list content adds (0 or 1 record).
WebItemSource(item) ==
    IF HasGet(item)
    THEN IF /\ Get(item, "type", None) # "text"
            /\ Get(item, "type", None) = "tool_reference"
            /\ Get(item, "tool", None) \in WebSearchTools
         THEN << [title |-> Get(item, "title", ""),
                  url |-> Get(item, "url", ""),
                  source |-> Get(item, "source", "")] >>
         ELSE <<>>
    ELSE IF HasAttr(item, "type")
         THEN IF /\ ~(item.type = "text" /\ HasAttr(item, "text"))
                 /\ item.type = "tool_reference"
                 /\ HasAttr(item, "tool")
                 /\ item.tool \in WebSearchTools
              THEN << [title |-> IF HasAttr(item, "title") THEN item.title ELSE "",
                       url |-> IF HasAttr(item, "url") THEN item.url ELSE "",
                       source |-> IF HasAttr(item, "source") THEN item.source ELSE ""] >>
              ELSE <<>>
         ELSE <<>>

RECURSIVE WebListFold(_, _)
WebListFold(items, acc) ==
    IF items = <<>> THEN acc
    ELSE WebListFold(Tail(items),
                     [text |-> acc.text \o WebItemText(Head(items)),
                      sources |-> acc.sources \o WebItemSource(Head(items))])

\* WebNormalize with "response_text = output.content" for "+=".
RECURSIVE WebNormalizeOverwrite(_, _)
WebNormalizeOverwrite(outputs, acc) ==
    IF outputs = <<>> THEN acc
    ELSE LET output == Head(outputs)
             next ==
                 IF HasAttr(output, "type") /\ output.type = "message.output"
                 THEN IF output.content.kind = "str"
                      THEN [acc EXCEPT !.text = output.content.str]
                      ELSE IF output.content.kind = "list"
                           THEN WebListFold(output.content.items, acc)
                           ELSE acc
                 ELSE acc
         IN  WebNormalizeOverwrite(Tail(outputs), next)

\* The loop over response.outputs: acc is [text, sources].
RECURSIVE WebNormalize(_, _)
WebNormalize(outputs, acc) ==
    IF outputs = <<>> THEN acc
    ELSE LET output == Head(outputs)
             next ==
                 IF HasAttr(output, "type") /\ output.type = "message.output"
                 THEN IF output.content.kind = "str"
                      THEN [acc EXCEPT !.text = @ \o output.content.str]
                      ELSE IF output.content.kind = "list"
                           THEN WebListFold(output.content.items, acc)
                           ELSE acc
                 ELSE acc
         IN  WebNormalize(Tail(outputs), next)

WebAssistantTurn(text, sources) ==
    [role |-> "assistant", content |-> text, sources |-> sources]

\* WebRun with the start call made again when it fails.
WebRunRetry(prompt, env) ==
    IF ~env.create.ok
    THEN [turns |-> <<>>,
          calls |-> << CreateCall(WebAgentName, env.create) >>,
          errors |-> << "Failed to create web search agent: " \o env.create.msg >>]
    ELSE LET log == << CreateCall(WebAgentName, env.create),
                       StartCall(env.create.id, prompt, env.start) >>
         IN  IF ~env.start.ok
             THEN [turns |-> << UserTurn(prompt),
                                WebAssistantTurn(ErrorText(env.start.msg), <<>>) >>,
                   calls |-> Append(log, StartCall(env.create.id, prompt, env.start)),
                   errors |-> << ErrorText(env.start.msg) >>]
             ELSE LET raise == MessageRaise(env.start.outputs)
                      n == WebNormalize(env.start.outputs, [text |-> "", sources |-> <<>>])
                  IN  IF raise.raised
                      THEN [turns |-> << UserTurn(prompt),
                                         WebAssistantTurn(ErrorText(raise.msg), <<>>) >>,
                            calls |-> log,
                            errors |-> << ErrorText(raise.msg) >>]
                      ELSE [turns |-> << UserTurn(prompt), WebAssistantTurn(n.text, n.sources) >>,
                            calls |-> log,
                            errors |-> <<>>]

\* The submit branch of display_web_search_page, after the prompt check.
WebRun(prompt, env) ==
    IF ~env.create.ok
    THEN [turns |-> <<>>,
          calls |-> << CreateCall(WebAgentName, env.create) >>,
          errors |-> << "Failed to create web search agent: " \o env.create.msg >>]
    ELSE LET log == << CreateCall(WebAgentName, env.create),
                       StartCall(env.create.id, prompt, env.start) >>
         IN  IF ~env.start.ok
             THEN [turns |-> << UserTurn(prompt),
                                WebAssistantTurn(ErrorText(env.start.msg), <<>>) >>,
                   calls |-> log,
                   errors |-> << ErrorText(env.start.msg) >>]
             ELSE LET raise == MessageRaise(env.start.outputs)
                      n == WebNormalize(env.start.outputs, [text |-> "", sources |-> <<>>])
                  IN  IF raise.raised
                      THEN [turns |-> << UserTurn(prompt),
                                         WebAssistantTurn(ErrorText(raise.msg), <<>>) >>,
                            calls |-> log,
                            errors |-> << ErrorText(raise.msg) >>]
                      ELSE [turns |-> << UserTurn(prompt), WebAssistantTurn(n.text, n.sources) >>,
                            calls |-> log,
                            errors |-> <<>>]

(***************************************************************************)
(* Agent orchestration page.                                               *)
(***************************************************************************)
\* The agents in the order create_orchestration_agents creates them.
OrchAgentNames == << "Finance Agent", "Web Search Agent", "Calculator Agent", "Graph Agent" >>

\* The registry keys, in the order of the returned dict.
OrchRegistryKeys == << "finance", "web_search", "calculator", "graph" >>

\* OrchHandoffGraph with the calculator agent handing back to the web-search
\* agent.
OrchHandoffGraphCyclic == << [agent |-> 1, handoffs |-> <<2, 3, 4>>],
                             [agent |-> 2, handoffs |-> <<3, 4>>],
                             [agent |-> 3, handoffs |-> <<4, 2>>] >>

\* The three agents.update calls: the agent updated and its handoff targets,
\* as indices into the creation order.
OrchHandoffGraph == << [agent |-> 1, handoffs |-> <<2, 3, 4>>],
                       [agent |-> 2, handoffs |-> <<3, 4>>],
                       [agent |-> 3, handoffs |-> <<4>>] >>

UpdateCall(agent_id, handoffs, res) ==
    [op |-> "update", agent_id |-> agent_id, handoffs |-> handoffs, res |-> res]

\* The calls create_orchestration_agents makes: env.creates and env.updates are the
\* results of the four creates and three updates; the first failure ends the calls.
RECURSIVE OrchCreateCalls(_, _)
OrchCreateCalls(env, k) ==
    IF k > Len(OrchAgentNames) THEN <<>>
    ELSE << CreateCall(OrchAgentNames[k], env.creates[k]) >>
         \o (IF env.creates[k].ok THEN OrchCreateCalls(env, k + 1) ELSE <<>>)

RECURSIVE OrchUpdateCalls(_, _)
OrchUpdateCalls(env, k) ==
    IF k > Len(OrchHandoffGraph) THEN <<>>
    ELSE LET g == OrchHandoffGraph[k]
         IN  << UpdateCall(env.creates[g.agent].id,
                           [j \in 1..Len(g.handoffs) |-> env.creates[g.handoffs[j]].id],
                           env.updates[k]) >>
             \o (IF env.updates[k].ok THEN OrchUpdateCalls(env, k + 1) ELSE <<>>)

OrchProvisionCalls(env) ==
    LET cs == OrchCreateCalls(env, 1)
    IN  IF cs[Len(cs)].res.ok THEN cs \o OrchUpdateCalls(env, 1) ELSE cs

\* OrchRegistry with the ids of the web-search and graph agents exchanged.
OrchRegistrySwapped(env) ==
    [k \in 1..Len(OrchRegistryKeys) |->
        [name |-> OrchRegistryKeys[k],
         id |-> env.creates[IF k = 2 THEN 4 ELSE IF k = 4 THEN 2 ELSE k].id]]

\* agent_ids: the registry returned on success, key -> agent id.
OrchRegistry(env) ==
    [k \in 1..Len(OrchRegistryKeys) |-> [name |-> OrchRegistryKeys[k], id |-> env.creates[k].id]]

\* next((name for name, id in agent_ids.items() if id == handoff_agent_id), "Unknown Agent")
RECURSIVE OrchAgentNameOf(_, _)
OrchAgentNameOf(registry, handoff_agent_id) ==
    IF registry = <<>> THEN "Unknown Agent"
    ELSE IF Head(registry).id = handoff_agent_id THEN Head(registry).name
         ELSE OrchAgentNameOf(Tail(registry), handoff_agent_id)

OrchItemText(item) ==
    IF HasGet(item)
    THEN IF Get(item, "type", None) = "text" THEN Get(item, "text", "") ELSE ""
    ELSE IF HasAttr(item, "type") /\ item.type = "text" /\ HasAttr(item, "text")
         THEN item.text
         ELSE ""

RECURSIVE OrchListText(_)
OrchListText(items) ==
    IF items = <<>> THEN ""
    ELSE OrchItemText(Head(items)) \o OrchListText(Tail(items))

OrchHandoffOf(output, registry) ==
    LET handoff_agent_id == IF HasAttr(output, "agent_id") THEN output.agent_id ELSE ""
        handoff_inputs == IF HasAttr(output, "inputs") THEN output.inputs ELSE ""
    IN  [agent_name |-> OrchAgentNameOf(registry, handoff_agent_id),
         agent_id |-> handoff_agent_id,
         inputs |-> handoff_inputs]

EmptyDict == [shape |-> "dict"]

\* info.__dict__ of an object: the mapping holding its attributes.
ObjDict(o) == [k \in DOMAIN o |-> IF k = "shape" THEN "dict" ELSE o[k]]

\* An info object whose attribute access fails carries the field "throws":
\*   "AttributeError": every access raises AttributeError, so hasattr is False;
\*   "Exception": every access raises another exception, which hasattr lets through;
\*   "OnRead": hasattr(info, '__dict__') succeeds and the read in the try fails.
Throws(info) == IF "throws" \in DOMAIN info THEN info.throws ELSE None

\* tool_info of a tool.execution output that has an info attribute.
OrchInfoOf(info) ==
    IF Throws(info) = "AttributeError" THEN info
    ELSE IF Throws(info) = "OnRead" THEN EmptyDict
    ELSE IF info.shape = "obj" THEN ObjDict(info) ELSE info

OrchToolOf(output) ==
    [tool_name |-> IF HasAttr(output, "name") THEN output.name ELSE "",
     info |-> IF HasAttr(output, "info") THEN OrchInfoOf(output.info) ELSE EmptyDict]

\* The first exception of the loop over response.outputs: a message output
\* without content, or hasattr(output.info, '__dict__') letting an exception
\* of the info object through. [raised, msg] or [raised |-> FALSE].
RECURSIVE OrchRaise(_)
OrchRaise(outputs) ==
    IF outputs = <<>> THEN [raised |-> FALSE]
    ELSE LET output == Head(outputs)
         IN  IF MessageRaise(<< output >>).raised
             THEN MessageRaise(<< output >>)
             ELSE IF /\ HasAttr(output, "type")
                     /\ output.type = "tool.execution"
                     /\ HasAttr(output, "info")
                     /\ Throws(output.info) = "Exception"
                  THEN [raised |-> TRUE, msg |-> output.info.msg]
                  ELSE OrchRaise(Tail(outputs))

\* OrchNormalize with "handoffs.insert(0, ...)" for "handoffs.append(...)".
RECURSIVE OrchNormalizePrepend(_, _, _)
OrchNormalizePrepend(outputs, registry, acc) ==
    IF outputs = <<>> THEN acc
    ELSE LET output == Head(outputs)
             next ==
                 IF HasAttr(output, "type") /\ output.type = "message.output"
                 THEN IF output.content.kind = "str"
                      THEN [acc EXCEPT !.text = @ \o output.content.str]
                      ELSE IF output.content.kind = "list"
                           THEN [acc EXCEPT !.text = @ \o OrchListText(output.content.items)]
                           ELSE acc
                 ELSE IF HasAttr(output, "type") /\ output.type = "handoff.execution"
                      THEN [acc EXCEPT !.handoffs = << OrchHandoffOf(output, registry) >> \o @]
                      ELSE IF HasAttr(output, "type") /\ output.type = "tool.execution"
                           THEN [acc EXCEPT !.tool_executions = Append(@, OrchToolOf(output))]
                           ELSE acc
         IN  OrchNormalizePrepend(Tail(outputs), registry, next)

\* The loop over response.outputs: acc is [text, handoffs, tool_executions].
RECURSIVE OrchNormalize(_, _, _)
OrchNormalize(outputs, registry, acc) ==
    IF outputs = <<>> THEN acc
    ELSE LET output == Head(outputs)
             next ==
                 IF HasAttr(output, "type") /\ output.type = "message.output"
                 THEN IF output.content.kind = "str"
                      THEN [acc EXCEPT !.text = @ \o output.content.str]
                      ELSE IF output.content.kind = "list"
                           THEN [acc EXCEPT !.text = @ \o OrchListText(output.content.items)]
                           ELSE acc
                 ELSE IF HasAttr(output, "type") /\ output.type = "handoff.execution"
                      THEN [acc EXCEPT !.handoffs = Append(@, OrchHandoffOf(output, registry))]
                      ELSE IF HasAttr(output, "type") /\ output.type = "tool.execution"
                           THEN [acc EXCEPT !.tool_executions = Append(@, OrchToolOf(output))]
                           ELSE acc
         IN  OrchNormalize(Tail(outputs), registry, next)

OrchAssistantTurn(text, handoffs, tool_executions) ==
    [role |-> "assistant", content |-> text, handoffs |-> handoffs,
     tool_executions |-> tool_executions]

OrchStartCall(agent_id, inputs, handoff_mode, res) ==
    [op |-> "start", agent_id |-> agent_id, inputs |-> inputs,
     handoff_execution |-> handoff_mode, res |-> res]

\* OrchRun with the handoffs of the payload recorded under server-side
\* execution only.
OrchRunClientSilent(prompt, handoff_mode, env) ==
    LET provision == OrchProvisionCalls(env)
        failed == provision[Len(provision)].res
    IN  IF ~failed.ok
        THEN [turns |-> <<>>,
              calls |-> provision,
              errors |-> << "Failed to create orchestration agents: " \o failed.msg >>]
        ELSE LET log == Append(provision,
                               OrchStartCall(env.creates[1].id, prompt, handoff_mode, env.start))
             IN  IF ~env.start.ok
                 THEN [turns |-> << UserTurn(prompt),
                                    OrchAssistantTurn(ErrorText(env.start.msg), <<>>, <<>>) >>,
                       calls |-> log,
                       errors |-> << ErrorText(env.start.msg) >>]
                 ELSE LET raise == OrchRaise(env.start.outputs)
                          n == OrchNormalize(env.start.outputs, OrchRegistry(env),
                                             [text |-> "", handoffs |-> <<>>,
                                              tool_executions |-> <<>>])
                      IN  IF raise.raised
                          THEN [turns |-> << UserTurn(prompt),
                                             OrchAssistantTurn(ErrorText(raise.msg), <<>>, <<>>) >>,
                                calls |-> log,
                                errors |-> << ErrorText(raise.msg) >>]
                          ELSE [turns |-> << UserTurn(prompt),
                                             OrchAssistantTurn(n.text,
                                                               IF handoff_mode = "client"
                                                               THEN <<>> ELSE n.handoffs,
                                                               n.tool_executions) >>,
                                calls |-> log,
                                errors |-> <<>>]

\* The submit branch of display_agent_orchestration_page, after the prompt check.
OrchRun(prompt, handoff_mode, env) ==
    LET provision == OrchProvisionCalls(env)
        failed == provision[Len(provision)].res
    IN  IF ~failed.ok
        THEN [turns |-> <<>>,
              calls |-> provision,
              errors |-> << "Failed to create orchestration agents: " \o failed.msg >>]
        ELSE LET log == Append(provision,
                               OrchStartCall(env.creates[1].id, prompt, handoff_mode, env.start))
             IN  IF ~env.start.ok
                 THEN [turns |-> << UserTurn(prompt),
                                    OrchAssistantTurn(ErrorText(env.start.msg), <<>>, <<>>) >>,
                       calls |-> log,
                       errors |-> << ErrorText(env.start.msg) >>]
                 ELSE LET raise == OrchRaise(env.start.outputs)
                          n == OrchNormalize(env.start.outputs, OrchRegistry(env),
                                             [text |-> "", handoffs |-> <<>>,
                                              tool_executions |-> <<>>])
                      IN  IF raise.raised
                          THEN [turns |-> << UserTurn(prompt),
                                             OrchAssistantTurn(ErrorText(raise.msg), <<>>, <<>>) >>,
                                calls |-> log,
                                errors |-> << ErrorText(raise.msg) >>]
                          ELSE [turns |-> << UserTurn(prompt),
                                             OrchAssistantTurn(n.text, n.handoffs,
                                                               n.tool_executions) >>,
                                calls |-> log,
                                errors |-> <<>>]

(***************************************************************************)
(* Function calls page: the two local executors.                           *)
(***************************************************************************)
\* rates, with the rate already formatted as f"{rate}%".
Rates ==
    [us |-> [interest_rate |-> "5.5%", name |-> "Federal Reserve", last_updated |-> "2023-12-13"],
     ecb |-> [interest_rate |-> "4.0%", name |-> "European Central Bank", last_updated |-> "2023-12-14"],
     uk |-> [interest_rate |-> "5.25%", name |-> "Bank of England", last_updated |-> "2023-12-15"],
     japan |-> [interest_rate |-> "-0.1%", name |-> "Bank of Japan", last_updated |-> "2023-12-10"],
     australia |-> [interest_rate |-> "4.35%", name |-> "Reserve Bank of Australia", last_updated |-> "2023-12-05"],
     canada |-> [interest_rate |-> "5.0%", name |-> "Bank of Canada", last_updated |-> "2023-12-06"]]

\* list(rates.keys()): the keys in insertion order.
RateKeys == << "us", "ecb", "uk", "japan", "australia", "canada" >>

\* The region strings the model draws: the six keys, spellings of them in
\* other cases, and strings that are no key in any case.
RegionNames ==
    { "us", "US", "Us", "ecb", "ECB", "uk", "UK", "japan", "Japan",
      "australia", "AUSTRALIA", "canada", "Canada", "Mars", "mars", "usa", "" }

\* str.lower() taken as the identity: the region is matched as it is spelled.
LowerAsSpelled(s) == s

\* str.lower() on the region strings the model draws.
Lower(s) ==
    CASE s = "US" -> "us"
      [] s = "Us" -> "us"
      [] s = "ECB" -> "ecb"
      [] s = "UK" -> "uk"
      [] s = "Japan" -> "japan"
      [] s = "AUSTRALIA" -> "australia"
      [] s = "Canada" -> "canada"
      [] s = "Mars" -> "mars"
      [] OTHER -> s

get_interest_rate(region, date, today) ==
    LET d == IF Truthy(date) THEN date ELSE today
        region_lower == Lower(region)
    IN  IF region_lower \in DOMAIN Rates
        THEN [shape |-> "dict",
              region |-> region,
              date |-> d,
              interest_rate |-> Rates[region_lower].interest_rate,
              central_bank |-> Rates[region_lower].name,
              last_updated |-> Rates[region_lower].last_updated]
        ELSE [shape |-> "dict",
              error |-> "No interest rate data available for " \o region,
              available_regions |-> RateKeys]

RECURSIVE Gcd(_, _)
Gcd(a, b) == IF b = 0 THEN a ELSE Gcd(b, a % b)

RECURSIVE Pow(_, _)
Pow(b, n) == IF n = 0 THEN 1 ELSE b * Pow(b, n - 1)

\* round(num / den, 2) for num >= 0, den > 0, in hundredths: the nearest
\* hundredth, a tie going to the even one.
RoundCents(num, den) ==
    LET q == (100 * num) \div den
        r == (100 * num) % den
    IN  IF 2 * r > den \/ (2 * r = den /\ q % 2 = 1) THEN q + 1 ELSE q

\* calculate_loan_payment without the branch "if monthly_rate == 0": the
\* annuity formula at every rate.
calculate_loan_payment_annuity(principal, annual_interest_rate, term_years) ==
    LET g == Gcd(annual_interest_rate, 1200)
        rnum == annual_interest_rate \div g
        rden == 1200 \div g
        payments == term_years * 12
        grow == Pow(rden + rnum, payments)
        base == Pow(rden, payments)
        mnum == principal * rnum * grow
        mden == rden * (grow - base)
    IN  IF mden = 0
        THEN [raised |-> TRUE, msg |-> "float division by zero"]
        ELSE [raised |-> FALSE,
              v |-> [shape |-> "dict",
                     principal |-> principal,
                     annual_interest_rate |-> ToString(annual_interest_rate) \o "%",
                     term_years |-> term_years,
                     monthly_payment |-> RoundCents(mnum, mden),
                     total_payment |-> RoundCents(mnum * payments, mden),
                     total_interest |-> RoundCents(mnum * payments - principal * mden, mden),
                     number_of_payments |-> payments]]

\* calculate_loan_payment on integer arguments. The amounts are exact
\* rationals num/den; the three rounded results are in hundredths. The result
\* is [raised |-> TRUE] on a division by zero.
calculate_loan_payment(principal, annual_interest_rate, term_years) ==
    LET g == Gcd(annual_interest_rate, 1200)
        rnum == annual_interest_rate \div g      \* monthly_rate = rnum / rden
        rden == 1200 \div g
        payments == term_years * 12
        grow == Pow(rden + rnum, payments)       \* (1 + monthly_rate) ** payments
        base == Pow(rden, payments)              \*   = grow / base
        \* monthly_payment = mnum / mden
        mnum == IF rnum = 0 THEN principal ELSE principal * rnum * grow
        mden == IF rnum = 0 THEN payments ELSE rden * (grow - base)
    IN  IF mden = 0
        THEN [raised |-> TRUE,
              msg |-> IF rnum = 0 THEN "division by zero" ELSE "float division by zero"]
        ELSE [raised |-> FALSE,
              v |-> [shape |-> "dict",
                     principal |-> principal,
                     annual_interest_rate |-> ToString(annual_interest_rate) \o "%",
                     term_years |-> term_years,
                     monthly_payment |-> RoundCents(mnum, mden),
                     total_payment |-> RoundCents(mnum * payments, mden),
                     total_interest |-> RoundCents(mnum * payments - principal * mden, mden),
                     number_of_payments |-> payments]]

(***************************************************************************)
(* Function calls page.                                                    *)
(***************************************************************************)
FuncAgentName == "Function Call Agent"

\* The loans the model draws, << principal, annual_interest_rate, term_years >>:
\* every principal and term at the rate 0, and loans at 1200 percent a year
\* (100 percent a month).
LoanArguments ==
    { << p, 0, t >> : p \in {0, 1, 1000, 12000, 250000}, t \in 0..3 }
    \cup { << 0, 1200, 1 >>, << 1, 1200, 1 >>, << 100, 1200, 1 >>, << 100, 1200, 0 >> }

\* The JSON text of the arguments of a loan.
LoanArgs(loan) ==
    "{\"principal\": " \o ToString(loan[1]) \o ", \"annual_interest_rate\": "
        \o ToString(loan[2]) \o ", \"term_years\": " \o ToString(loan[3]) \o "}"

\* The JSON text of the arguments {"region": region}.
RegionArgs(region) == "{\"region\": \"" \o region \o "\"}"

\* json.loads on the argument strings the model draws: [ok, v], v a mapping
\* (shape "dict") or, for a JSON text that is no object, a value without keys.
JsonLoads(s) ==
    CASE \E region \in RegionNames : s = RegionArgs(region) ->
            [ok |-> TRUE,
             v |-> [shape |-> "dict",
                    region |-> CHOOSE region \in RegionNames : s = RegionArgs(region)]]
      [] \E loan \in LoanArguments : s = LoanArgs(loan) ->
            LET loan == CHOOSE l \in LoanArguments : s = LoanArgs(l)
            IN  [ok |-> TRUE, v |-> [shape |-> "dict", principal |-> loan[1],
                                     annual_interest_rate |-> loan[2],
                                     term_years |-> loan[3]]]
      [] s = "{\"region\": \"us\"}" ->
            [ok |-> TRUE, v |-> [shape |-> "dict", region |-> "us"]]
      [] s = "{\"region\": \"US\", \"date\": \"2024-01-01\"}" ->
            [ok |-> TRUE, v |-> [shape |-> "dict", region |-> "US", date |-> "2024-01-01"]]
      [] s = "{\"region\": \"Mars\"}" ->
            [ok |-> TRUE, v |-> [shape |-> "dict", region |-> "Mars"]]
      [] s = "{\"principal\": 12000, \"annual_interest_rate\": 0, \"term_years\": 1}" ->
            [ok |-> TRUE, v |-> [shape |-> "dict", principal |-> 12000,
                                 annual_interest_rate |-> 0, term_years |-> 1]]
      [] s = "{\"principal\": 4095, \"annual_interest_rate\": 1200, \"term_years\": 1}" ->
            [ok |-> TRUE, v |-> [shape |-> "dict", principal |-> 4095,
                                 annual_interest_rate |-> 1200, term_years |-> 1]]
      [] s = "{\"principal\": 1000}" ->
            [ok |-> TRUE, v |-> [shape |-> "dict", principal |-> 1000]]
      [] s = "{}" -> [ok |-> TRUE, v |-> EmptyDict]
      [] s = "5" -> [ok |-> TRUE, v |-> [shape |-> "int", v |-> 5]]
      [] OTHER -> [ok |-> FALSE]

\* json.dumps of an executor result: the JSON text, kept as the value it encodes.
JsonDumps(v) == [json |-> v]

FuncItemText(item) ==
    IF HasGet(item)
    THEN IF Get(item, "type", None) = "text" THEN Get(item, "text", "") ELSE ""
    ELSE IF HasAttr(item, "type") /\ item.type = "text" /\ HasAttr(item, "text")
         THEN item.text
         ELSE ""

RECURSIVE FuncListText(_)
FuncListText(items) ==
    IF items = <<>> THEN ""
    ELSE FuncItemText(Head(items)) \o FuncListText(Tail(items))

\* The pending call one tool_call adds (a sequence of 0 or 1 record).
FuncCallOf(tool_call) ==
    IF HasAttr(tool_call, "function")
    THEN LET function == tool_call.function
             parsed == JsonLoads(function.arguments)
         IN  << [tool_call_id |-> IF HasAttr(tool_call, "id") THEN tool_call.id ELSE "",
                 function_name |-> IF HasAttr(function, "name") THEN function.name ELSE "",
                 arguments |-> IF HasAttr(function, "arguments")
                               THEN IF parsed.ok THEN parsed.v
                                    ELSE [shape |-> "dict", raw_args |-> function.arguments]
                               ELSE EmptyDict] >>
    ELSE <<>>

RECURSIVE FuncCallsOf(_)
FuncCallsOf(tool_calls) ==
    IF tool_calls = <<>> THEN <<>>
    ELSE FuncCallOf(Head(tool_calls)) \o FuncCallsOf(Tail(tool_calls))

\* The loop over response.outputs of the start payload: acc is [text, function_calls].
RECURSIVE FuncNormalize(_, _)
FuncNormalize(outputs, acc) ==
    IF outputs = <<>> THEN acc
    ELSE LET output == Head(outputs)
             next ==
                 IF HasAttr(output, "type") /\ output.type = "message.output"
                 THEN IF output.content.kind = "str"
                      THEN [acc EXCEPT !.text = @ \o output.content.str]
                      ELSE IF output.content.kind = "list"
                           THEN [acc EXCEPT !.text = @ \o FuncListText(output.content.items)]
                           ELSE acc
                 ELSE IF HasAttr(output, "type") /\ output.type = "tool.calls"
                      THEN IF HasAttr(output, "tool_calls")
                           THEN [acc EXCEPT !.function_calls = @ \o FuncCallsOf(output.tool_calls)]
                           ELSE acc
                      ELSE acc
         IN  FuncNormalize(Tail(outputs), next)

NoGetMsg == "object has no attribute 'get'"

NoTypeMsg == "object has no attribute 'type'"

\* The executor branch of the loop over function_calls: [raised, msg] when the
\* executor or the argument access raises, else [raised |-> FALSE, v |-> result];
\* result stays None when the name is not one of the two executors.
FuncExecute(function_call, today) ==
    LET function_name == function_call.function_name
        args == function_call.arguments
    IN  IF function_name = "get_interest_rate"
        THEN IF ~HasGet(args) THEN [raised |-> TRUE, msg |-> NoGetMsg]
             ELSE [raised |-> FALSE,
                   v |-> get_interest_rate(Get(args, "region", ""), Get(args, "date", None), today)]
        ELSE IF function_name = "calculate_loan_payment"
             THEN IF ~HasGet(args) THEN [raised |-> TRUE, msg |-> NoGetMsg]
                  ELSE calculate_loan_payment(Get(args, "principal", 0),
                                              Get(args, "annual_interest_rate", 0),
                                              Get(args, "term_years", 0))
             ELSE [raised |-> FALSE, v |-> None]

\* "if result:" taken as true for every request that carries a name.
FuncHasResultNamed(function_call) == function_call.function_name # ""

\* "if result:": an executor ran (its result is a non-empty mapping).
FuncHasResult(function_call) ==
    function_call.function_name \in {"get_interest_rate", "calculate_loan_payment"}

\* The text a continue payload adds: [raised, msg] or [raised |-> FALSE, text].
\* The loop reads output.type and content_item.get without a check.
RECURSIVE FuncContListText(_)
FuncContListText(items) ==
    IF items = <<>> THEN [raised |-> FALSE, text |-> ""]
    ELSE IF ~HasGet(Head(items)) THEN [raised |-> TRUE, msg |-> NoGetMsg]
         ELSE LET rest == FuncContListText(Tail(items))
                  here == IF Get(Head(items), "type", None) = "text"
                          THEN Get(Head(items), "text", "") ELSE ""
              IN  IF rest.raised THEN rest
                  ELSE [raised |-> FALSE, text |-> here \o rest.text]

RECURSIVE FuncContText(_)
FuncContText(outputs) ==
    IF outputs = <<>> THEN [raised |-> FALSE, text |-> ""]
    ELSE LET output == Head(outputs)
             here == IF ~HasAttr(output, "type") THEN [raised |-> TRUE, msg |-> NoTypeMsg]
                     ELSE IF output.type = "message.output"
                          THEN IF ~HasAttr(output, "content")
                               THEN [raised |-> TRUE, msg |-> NoContentMsg]
                               ELSE IF output.content.kind = "str"
                               THEN [raised |-> FALSE, text |-> output.content.str]
                               ELSE IF output.content.kind = "list"
                                    THEN FuncContListText(output.content.items)
                                    ELSE [raised |-> FALSE, text |-> ""]
                          ELSE [raised |-> FALSE, text |-> ""]
         IN  IF here.raised THEN here
             ELSE LET rest == FuncContText(Tail(outputs))
                  IN  IF rest.raised THEN rest
                      ELSE [raised |-> FALSE, text |-> here.text \o rest.text]

ContinueCall(conversation_id, tool_call_id, result, res) ==
    [op |-> "continue", conversation_id |-> conversation_id,
     tool_call_id |-> tool_call_id, result |-> result, res |-> res]

\* FuncLoop with a raising executor skipped: the loop goes on with the next
\* request.
RECURSIVE FuncLoopSkipping(_, _, _, _)
FuncLoopSkipping(function_calls, conversation_id, env, st) ==
    IF function_calls = <<>> \/ st.raised THEN st
    ELSE LET function_call == Head(function_calls)
             exec == FuncExecute(function_call, env.today)
         IN  IF exec.raised
             THEN FuncLoopSkipping(Tail(function_calls), conversation_id, env, st)
             ELSE IF ~FuncHasResult(function_call)
                  THEN FuncLoopSkipping(Tail(function_calls), conversation_id, env, st)
                  ELSE LET res == env.conts[st.used + 1]
                           call == ContinueCall(conversation_id, function_call.tool_call_id,
                                                JsonDumps(exec.v), res)
                           text == FuncContText(res.outputs)
                           st1 == [st EXCEPT
                                      !.results = Append(@, [tool_call_id |-> function_call.tool_call_id,
                                                             function_name |-> function_call.function_name,
                                                             result |-> exec.v]),
                                      !.log = Append(@, call),
                                      !.used = @ + 1]
                       IN  IF ~res.ok
                           THEN [st1 EXCEPT !.raised = TRUE, !.msg = res.msg]
                           ELSE IF text.raised
                                THEN [st1 EXCEPT !.raised = TRUE, !.msg = text.msg]
                                ELSE FuncLoopSkipping(Tail(function_calls), conversation_id, env,
                                              [st1 EXCEPT !.final = @ \o text.text])

\* The loop over function_calls: st is [raised, msg, final, results, log, used],
\* used counting the continue results of env.conts consumed so far.
RECURSIVE FuncLoop(_, _, _, _)
FuncLoop(function_calls, conversation_id, env, st) ==
    IF function_calls = <<>> \/ st.raised THEN st
    ELSE LET function_call == Head(function_calls)
             exec == FuncExecute(function_call, env.today)
         IN  IF exec.raised
             THEN [st EXCEPT !.raised = TRUE, !.msg = exec.msg]
             ELSE IF ~FuncHasResult(function_call)
                  THEN FuncLoop(Tail(function_calls), conversation_id, env, st)
                  ELSE LET res == env.conts[st.used + 1]
                           call == ContinueCall(conversation_id, function_call.tool_call_id,
                                                JsonDumps(exec.v), res)
                           text == FuncContText(res.outputs)
                           st1 == [st EXCEPT
                                      !.results = Append(@, [tool_call_id |-> function_call.tool_call_id,
                                                             function_name |-> function_call.function_name,
                                                             result |-> exec.v]),
                                      !.log = Append(@, call),
                                      !.used = @ + 1]
                       IN  IF ~res.ok
                           THEN [st1 EXCEPT !.raised = TRUE, !.msg = res.msg]
                           ELSE IF text.raised
                                THEN [st1 EXCEPT !.raised = TRUE, !.msg = text.msg]
                                ELSE FuncLoop(Tail(function_calls), conversation_id, env,
                                              [st1 EXCEPT !.final = @ \o text.text])

FuncAssistantTurn(text, function_calls, function_results) ==
    [role |-> "assistant", content |-> text, function_calls |-> function_calls,
     function_results |-> function_results]

\* FuncRun with a second round: the requests of the last continue payload are
\* executed and answered as those of the start payload are.
FuncRunSecondRound(prompt, env) ==
    IF ~env.create.ok
    THEN [turns |-> <<>>,
          calls |-> << CreateCall(FuncAgentName, env.create) >>,
          errors |-> << "Failed to create function call agent: " \o env.create.msg >>]
    ELSE LET log == << CreateCall(FuncAgentName, env.create),
                       StartCall(env.create.id, prompt, env.start) >>
         IN  IF ~env.start.ok
             THEN [turns |-> << UserTurn(prompt),
                                FuncAssistantTurn(ErrorText(env.start.msg), <<>>, <<>>) >>,
                   calls |-> log,
                   errors |-> << ErrorText(env.start.msg) >>]
             ELSE LET raise == MessageRaise(env.start.outputs)
                      n == FuncNormalize(env.start.outputs, [text |-> "", function_calls |-> <<>>])
                      st == IF raise.raised
                            THEN [raised |-> TRUE, msg |-> raise.msg, log |-> log]
                            ELSE LET first == FuncLoop(n.function_calls,
                                                       env.start.conversation_id, env,
                                                       [raised |-> FALSE, msg |-> "",
                                                        final |-> "", results |-> <<>>,
                                                        log |-> log, used |-> 0])
                                     last == first.log[Len(first.log)]
                                 IN  IF first.raised \/ last.op # "continue" THEN first
                                     ELSE FuncLoop(FuncNormalize(last.res.outputs,
                                                                 [text |-> "",
                                                                  function_calls |-> <<>>]).function_calls,
                                                   env.start.conversation_id, env, first)
                      final_response == IF n.function_calls = <<>> THEN n.text ELSE st.final
                  IN  IF st.raised
                      THEN [turns |-> << UserTurn(prompt),
                                         FuncAssistantTurn(ErrorText(st.msg), <<>>, <<>>) >>,
                            calls |-> st.log,
                            errors |-> << ErrorText(st.msg) >>]
                      ELSE [turns |-> << UserTurn(prompt),
                                         FuncAssistantTurn(final_response, n.function_calls,
                                                           st.results) >>,
                            calls |-> st.log,
                            errors |-> <<>>]

\* The submit branch of display_function_calls_page, after the prompt check.
FuncRun(prompt, env) ==
    IF ~env.create.ok
    THEN [turns |-> <<>>,
          calls |-> << CreateCall(FuncAgentName, env.create) >>,
          errors |-> << "Failed to create function call agent: " \o env.create.msg >>]
    ELSE LET log == << CreateCall(FuncAgentName, env.create),
                       StartCall(env.create.id, prompt, env.start) >>
         IN  IF ~env.start.ok
             THEN [turns |-> << UserTurn(prompt),
                                FuncAssistantTurn(ErrorText(env.start.msg), <<>>, <<>>) >>,
                   calls |-> log,
                   errors |-> << ErrorText(env.start.msg) >>]
             ELSE LET raise == MessageRaise(env.start.outputs)
                      n == FuncNormalize(env.start.outputs, [text |-> "", function_calls |-> <<>>])
                      st == IF raise.raised
                            THEN [raised |-> TRUE, msg |-> raise.msg, log |-> log]
                            ELSE FuncLoop(n.function_calls, env.start.conversation_id, env,
                                          [raised |-> FALSE, msg |-> "", final |-> "",
                                           results |-> <<>>, log |-> log, used |-> 0])
                      final_response == IF n.function_calls = <<>> THEN n.text ELSE st.final
                  IN  IF st.raised
                      THEN [turns |-> << UserTurn(prompt),
                                         FuncAssistantTurn(ErrorText(st.msg), <<>>, <<>>) >>,
                            calls |-> st.log,
                            errors |-> << ErrorText(st.msg) >>]
                      ELSE [turns |-> << UserTurn(prompt),
                                         FuncAssistantTurn(final_response, n.function_calls,
                                                           st.results) >>,
                            calls |-> st.log,
                            errors |-> <<>>]

(***************************************************************************)
(* Image generation page.                                                  *)
(***************************************************************************)
ImageAgentName == "Image Generation Agent"

num_images_to_generate == 2

ImageItemText(item) ==
    IF HasGet(item)
    THEN IF Get(item, "type", None) = "text" THEN Get(item, "text", "") ELSE ""
    ELSE IF HasAttr(item, "type") /\ item.type = "text" /\ HasAttr(item, "text")
         THEN item.text
         ELSE ""

\* The file reference after one sub-item: file is [id, name, type].
ImageItemFile(item, file) ==
    IF HasGet(item)
    THEN IF /\ Get(item, "type", None) # "text"
            /\ Get(item, "type", None) = "tool_file"
            /\ Get(item, "tool", None) = "image_generation"
         THEN [id |-> Get(item, "file_id", None),
               name |-> Get(item, "file_name", None),
               type |-> Get(item, "file_type", None)]
         ELSE file
    ELSE IF /\ HasAttr(item, "type")
            /\ ~(item.type = "text" /\ HasAttr(item, "text"))
            /\ item.type = "tool_file"
            /\ HasAttr(item, "tool")
            /\ item.tool = "image_generation"
         THEN [id |-> IF HasAttr(item, "file_id") THEN item.file_id ELSE file.id,
               name |-> IF HasAttr(item, "file_name") THEN item.file_name ELSE file.name,
               type |-> IF HasAttr(item, "file_type") THEN item.file_type ELSE file.type]
         ELSE file

RECURSIVE ImageListFold(_, _)
ImageListFold(items, acc) ==
    IF items = <<>> THEN acc
    ELSE ImageListFold(Tail(items),
                       [text |-> acc.text \o ImageItemText(Head(items)),
                        file |-> ImageItemFile(Head(items), acc.file)])

\* The loop over response.outputs: acc is [text, file].
RECURSIVE ImageNormalize(_, _)
ImageNormalize(outputs, acc) ==
    IF outputs = <<>> THEN acc
    ELSE LET output == Head(outputs)
             next ==
                 IF HasAttr(output, "type") /\ output.type = "message.output"
                 THEN IF output.content.kind = "str"
                      THEN [acc EXCEPT !.text = @ \o output.content.str]
                      ELSE IF output.content.kind = "list"
                           THEN ImageListFold(output.content.items, acc)
                           ELSE acc
                 ELSE acc
         IN  ImageNormalize(Tail(outputs), next)

DownloadCall(file_id, res) == [op |-> "download", file_id |-> file_id, res |-> res]

ImageAssistantTurn(text, image_data, image_file_name, image_file_type) ==
    [role |-> "assistant", content |-> text, image_data |-> image_data,
     image_file_name |-> image_file_name, image_file_type |-> image_file_type]

ImageErrorTurn(text) == [role |-> "assistant", content |-> text, image_data |-> None]

\* One pass of the loop "for i in range(num_images_to_generate)", i counted from 1:
\* the turn appended, the calls made and the banners shown.
ImageRound(i, agent_id, prompt, round) ==
    LET start == StartCall(agent_id, prompt, round.start)
    IN  IF ~round.start.ok
        THEN LET text == "Error generating image " \o ToString(i) \o ": " \o round.start.msg
             IN  [turns |-> << ImageErrorTurn(text) >>,
                  calls |-> << start >>,
                  errors |-> << text >>]
        ELSE LET raise == MessageRaise(round.start.outputs)
                 failed == "Error generating image " \o ToString(i) \o ": " \o raise.msg
                 n == ImageNormalize(round.start.outputs,
                                     [text |-> "",
                                      file |-> [id |-> None, name |-> None, type |-> None]])
                 content == IF n.text # "" THEN n.text
                            ELSE "Here is generated image " \o ToString(i)
             IN  IF raise.raised
                 THEN [turns |-> << ImageErrorTurn(failed) >>,
                       calls |-> << start >>,
                       errors |-> << failed >>]
                 ELSE
                 IF ~Truthy(n.file.id)
                 THEN [turns |-> << ImageAssistantTurn(content, None, n.file.name, n.file.type) >>,
                       calls |-> << start >>,
                       errors |-> <<>>]
                 ELSE IF ~round.download.ok
                      THEN [turns |-> << ImageAssistantTurn(content, None,
                                                            n.file.name, n.file.type) >>,
                            calls |-> << start, DownloadCall(n.file.id, round.download) >>,
                            errors |-> << "Failed to download image " \o ToString(i) \o "/"
                                          \o ToString(num_images_to_generate) \o ": "
                                          \o round.download.msg >>]
                      ELSE [turns |-> << ImageAssistantTurn(content, round.download.data,
                                                            n.file.name, n.file.type) >>,
                            calls |-> << start, DownloadCall(n.file.id, round.download) >>,
                            errors |-> <<>>]

\* ImageRounds with the try around the loop: a failed pass ends it.
RECURSIVE ImageRoundsAborting(_, _, _, _)
ImageRoundsAborting(i, agent_id, prompt, env) ==
    IF i > num_images_to_generate
    THEN [turns |-> <<>>, calls |-> <<>>, errors |-> <<>>]
    ELSE LET here == ImageRound(i, agent_id, prompt, env.rounds[i])
             rest == ImageRoundsAborting(i + 1, agent_id, prompt, env)
         IN  IF ~env.rounds[i].start.ok THEN here
             ELSE [turns |-> here.turns \o rest.turns,
                   calls |-> here.calls \o rest.calls,
                   errors |-> here.errors \o rest.errors]

RECURSIVE ImageRounds(_, _, _, _)
ImageRounds(i, agent_id, prompt, env) ==
    IF i > num_images_to_generate
    THEN [turns |-> <<>>, calls |-> <<>>, errors |-> <<>>]
    ELSE LET here == ImageRound(i, agent_id, prompt, env.rounds[i])
             rest == ImageRounds(i + 1, agent_id, prompt, env)
         IN  [turns |-> here.turns \o rest.turns,
              calls |-> here.calls \o rest.calls,
              errors |-> here.errors \o rest.errors]

\* ImageRun with the user turn appended before the agent is created.
ImageRunUserFirst(prompt, env) ==
    IF ~env.create.ok
    THEN [turns |-> << UserTurn(prompt) >>,
          calls |-> << CreateCall(ImageAgentName, env.create) >>,
          errors |-> << "Failed to create image generation agent: " \o env.create.msg >>]
    ELSE LET rounds == ImageRounds(1, env.create.id, prompt, env)
         IN  [turns |-> << UserTurn(prompt) >> \o rounds.turns,
              calls |-> << CreateCall(ImageAgentName, env.create) >> \o rounds.calls,
              errors |-> rounds.errors]

\* The submit branch of display_image_generation_page, after the prompt check.
ImageRun(prompt, env) ==
    IF ~env.create.ok
    THEN [turns |-> <<>>,
          calls |-> << CreateCall(ImageAgentName, env.create) >>,
          errors |-> << "Failed to create image generation agent: " \o env.create.msg >>]
    ELSE LET rounds == ImageRounds(1, env.create.id, prompt, env)
         IN  [turns |-> << UserTurn(prompt) >> \o rounds.turns,
              calls |-> << CreateCall(ImageAgentName, env.create) >> \o rounds.calls,
              errors |-> rounds.errors]

(***************************************************************************)
(* The page handlers as actions.                                           *)
(***************************************************************************)
NoRun == [turns |-> <<>>, calls |-> <<>>, errors |-> <<>>]

\* Guarded without the prompt check under the button.
GuardedKeyOnly(prompt, run) == IF api_key = "" THEN NoRun ELSE run

\* The checks every page makes before it provisions an agent: the API key
\* check at the top of the page and the prompt check under the button.
Guarded(prompt, run) == IF api_key = "" \/ prompt = "" THEN NoRun ELSE run

RECURSIVE SumLen(_, _)
SumLen(h, fs) ==
    IF fs = {} THEN 0
    ELSE LET f == CHOOSE x \in fs : TRUE IN Len(h[f]) + SumLen(h, fs \ {f})

TotalTurns == SumLen(hist, Features)

\* Apply with the history rebuilt from the turns of the run alone.
ApplyReplacing(f, key, prompt, mode, run) ==
    /\ hist' = [hist EXCEPT ![f] = IF run.turns = <<>> THEN @ ELSE run.turns]
    /\ event' = [page |-> f, key |-> key, prompt |-> prompt, handoff_mode |-> mode]
    /\ calls' = run.calls
    /\ st_errors' = run.errors
    /\ UNCHANGED api_key

\* One script run with a submit button pressed.
Apply(f, key, prompt, mode, run) ==
    /\ hist' = [hist EXCEPT ![f] = @ \o run.turns]
    /\ event' = [page |-> f, key |-> key, prompt |-> prompt, handoff_mode |-> mode]
    /\ calls' = run.calls
    /\ st_errors' = run.errors
    /\ UNCHANGED api_key

\* room bounds the turns the session stores: a page is submitted only while a
\* complete submission still fits.
HasRoom(f, room) == TotalTurns + (IF f = "image" THEN 1 + num_images_to_generate ELSE 2) <= room

SubmitCode(prompts, envs, room) ==
    /\ HasRoom("code", room)
    /\ \E prompt \in prompts, env \in envs :
        Apply("code", "code_submit", prompt, None, Guarded(prompt, CodeRun(prompt, env)))

SubmitWeb(prompts, envs, room) ==
    /\ HasRoom("web", room)
    /\ \E prompt \in prompts, env \in envs :
        Apply("web", "web_search_submit", prompt, None,
              Guarded(prompt, WebRun(prompt, env)))

SubmitOrch(prompts, envs, room) ==
    /\ HasRoom("orch", room)
    /\ \E prompt \in prompts, env \in envs, mode \in {"server", "client"} :
        Apply("orch", "orchestration_submit", prompt, mode,
              Guarded(prompt, OrchRun(prompt, mode, env)))

SubmitFunc(prompts, envs, room) ==
    /\ HasRoom("func", room)
    /\ \E prompt \in prompts, env \in envs :
        Apply("func", "function_call_submit", prompt, None,
              Guarded(prompt, FuncRun(prompt, env)))

SubmitImage(prompts, envs, room) ==
    /\ HasRoom("image", room)
    /\ \E prompt \in prompts, env \in envs :
        Apply("image", "image_submit", prompt, None,
              Guarded(prompt, ImageRun(prompt, env)))

ClearKey(f) ==
    CASE f = "code" -> "clear_code_history"
      [] f = "web" -> "clear_web_search_history"
      [] f = "orch" -> "clear_orchestration_history"
      [] f = "func" -> "clear_function_calls_history"
      [] f = "image" -> "clear_image_history"

\* Cleared keeping the first turn of the history.
ClearedButFirst(h) == SubSeq(h, 1, 1)

\* What the Clear History button leaves of a history.
Cleared(h) == <<>>

\* Clear emptying every history of the session.
ClearAll(f) ==
    /\ api_key # ""
    /\ hist[f] # <<>>
    /\ hist' = [g \in Features |-> <<>>]
    /\ event' = [page |-> f, key |-> ClearKey(f), prompt |-> "", handoff_mode |-> None]
    /\ calls' = <<>>
    /\ st_errors' = <<>>
    /\ UNCHANGED api_key

\* The Clear History button of page f: shown below the API key check, and only
\* while the history is not empty.
Clear(f) ==
    /\ api_key # ""
    /\ hist[f] # <<>>
    /\ hist' = [hist EXCEPT ![f] = Cleared(@)]
    /\ event' = [page |-> f, key |-> ClearKey(f), prompt |-> "", handoff_mode |-> None]
    /\ calls' = <<>>
    /\ st_errors' = <<>>
    /\ UNCHANGED api_key

ApiKeys == {"", "sk-1"}

\* The sidebar's API key input.
SetApiKey ==
    \E k \in ApiKeys :
        /\ k # api_key
        /\ api_key' = k
        /\ event' = [page |-> "sidebar", key |-> "api_key_input", prompt |-> "",
                     handoff_mode |-> None]
        /\ calls' = <<>>
        /\ st_errors' = <<>>
        /\ UNCHANGED hist

\* init_session_state: empty histories; the key comes from the environment.
Init ==
    /\ api_key \in ApiKeys
    /\ hist = [f \in Features |-> <<>>]
    /\ event = [page |-> "home", key |-> None, prompt |-> "", handoff_mode |-> None]
    /\ calls = <<>>
    /\ st_errors = <<>>

(***************************************************************************)
(* The inputs the model draws: prompts, results of the remote calls and    *)
(* response payloads. Every field that is present has the type the code    *)
(* expects of it (a text is a str, tool_calls a list); fields are optional. *)
(***************************************************************************)
\* The most output items plus content sub-items in one drawn payload.
MaxSize == 3

\* The most turns stored in the session (all five histories together).
MaxTurns == 5

Prompts == {"", "p"}

ErrMsgs == {"401 Unauthorized", "timeout"}

Fail(msg) == [ok |-> FALSE, msg |-> msg]

Failures == {Fail(m) : m \in ErrMsgs}

CreateOk(id) == [ok |-> TRUE, id |-> id]

StartOk(outputs) == [ok |-> TRUE, conversation_id |-> "conv-1", outputs |-> outputs]

ContinueOk(outputs) == [ok |-> TRUE, conversation_id |-> "conv-1", outputs |-> outputs]

DownloadOk(data) == [ok |-> TRUE, data |-> data]

StrContent(s) == [kind |-> "str", str |-> s]

ListContent(items) == [kind |-> "list", items |-> items]

Message(content) == [shape |-> "obj", type |-> "message.output", content |-> content]

\* Content sub-items: text chunks of both shapes, with and without their text,
\* web-search references, image files, and items without a type.
TextItems ==
    { [shape |-> "dict", type |-> "text", text |-> "a"],
      [shape |-> "obj", type |-> "text", text |-> "b"],
      [shape |-> "dict", type |-> "text"],
      [shape |-> "obj", type |-> "text"] }

ReferenceItems ==
    { [shape |-> "dict", type |-> "tool_reference", tool |-> "web_search",
       title |-> "t1", url |-> "u1"],
      [shape |-> "obj", type |-> "tool_reference", tool |-> "web_search_premium",
       title |-> "t2", source |-> "s2"] }

FileItems ==
    { [shape |-> "dict", type |-> "tool_file", tool |-> "image_generation",
       file_id |-> "f1", file_name |-> "n1", file_type |-> "png"],
      [shape |-> "obj", type |-> "tool_file", tool |-> "image_generation",
       file_id |-> "f2"] }

UntypedItems == { [shape |-> "dict", text |-> "a"], [shape |-> "obj", text |-> "b"] }

SubItems == TextItems \cup ReferenceItems \cup FileItems \cup UntypedItems

RECURSIVE SeqsOfLen(_, _)
SeqsOfLen(S, n) ==
    IF n = 0 THEN {<<>>}
    ELSE {<<x>> \o t : x \in S, t \in SeqsOfLen(S, n - 1)}

\* Message outputs of weight w: one output item plus w - 1 content sub-items.
MessagesOfWeight(w) ==
    IF w = 1
    THEN {Message(StrContent(s)) : s \in {"x", "y"}} \cup {Message([kind |-> "none"])}
    ELSE {Message(ListContent(l)) : l \in SeqsOfLen(SubItems, w - 1)}

OtherOutputs ==
    { [shape |-> "obj", type |-> "conversation.response.done"],
      [shape |-> "obj", content |-> StrContent("z")] }

ToolExecutions ==
    { [shape |-> "obj", type |-> "tool.execution", name |-> "code_interpreter",
       info |-> [shape |-> "obj", code |-> "c1", code_output |-> "o1"]],
      [shape |-> "obj", type |-> "tool.execution", name |-> "code_interpreter",
       info |-> [shape |-> "dict", code |-> "c2"]],
      [shape |-> "obj", type |-> "tool.execution", name |-> "web_search"] }

\* The agent ids the remote service hands out in one submission: gen names the
\* submission's batch, k the position of the create call in it.
AgentId(gen, k) == "ag-" \o gen \o ToString(k)

\* Handoff executions: to two agents of batch "A", to an agent no registry
\* holds, and without an agent id.
Handoffs ==
    { [shape |-> "obj", type |-> "handoff.execution", agent_id |-> AgentId("A", k),
       inputs |-> "in"] : k \in {2, 4} }
    \cup { [shape |-> "obj", type |-> "handoff.execution", agent_id |-> "id-999", inputs |-> "in"],
           [shape |-> "obj", type |-> "handoff.execution"] }

ToolCall(id, name, arguments) ==
    [shape |-> "obj", id |-> id,
     function |-> [shape |-> "obj", name |-> name, arguments |-> arguments]]

\* tool.calls outputs of weight 1: one function-call request each, or none.
ToolCallOutputs ==
    { [shape |-> "obj", type |-> "tool.calls", tool_calls |-> << c >>] :
        c \in { ToolCall("tc1", "get_interest_rate", "{\"region\": \"us\"}"),
                ToolCall("tc2", "get_weather", "{}"),
                [shape |-> "obj", id |-> "tc3"] } }
    \cup { [shape |-> "obj", type |-> "tool.calls"] }

\* The output items of weight w a page may receive.
OutputsOfWeight(f, w) ==
    MessagesOfWeight(w)
    \cup (IF w # 1 THEN {}
          ELSE OtherOutputs
               \cup (IF f \in {"code", "orch"} THEN ToolExecutions ELSE {})
               \cup (IF f = "orch" THEN Handoffs ELSE {})
               \cup (IF f = "func" THEN ToolCallOutputs ELSE {}))

\* The payloads of page f of size at most n.
RECURSIVE Payloads(_, _)
Payloads(f, n) ==
    {<<>>} \cup UNION { { <<o>> \o p : o \in OutputsOfWeight(f, w), p \in Payloads(f, n - w) } :
                        w \in 1..n }

(***************************************************************************)
(* First submissions: every page, on a fresh session, with every payload   *)
(* of size at most MaxSize.                                                *)
(***************************************************************************)
FirstRoom == 1 + num_images_to_generate

PayloadCodeEnvs ==
    { [create |-> CreateOk(AgentId("A", 1)), start |-> StartOk(p)] : p \in Payloads("code", MaxSize) }

PayloadWebEnvs ==
    { [create |-> CreateOk(AgentId("A", 1)), start |-> StartOk(p)] : p \in Payloads("web", MaxSize) }

AllOk(n) == [k \in 1..n |-> [ok |-> TRUE]]

OrchCreates(gen) == [k \in 1..Len(OrchAgentNames) |-> CreateOk(AgentId(gen, k))]

PayloadOrchEnvs ==
    { [creates |-> OrchCreates("A"), updates |-> AllOk(Len(OrchHandoffGraph)), start |-> StartOk(p)] :
        p \in Payloads("orch", MaxSize) }

\* One result per continue request: the k-th answers with the text "r<k>".
ContinueTexts(n) == [k \in 1..n |-> ContinueOk(<< Message(StrContent("r" \o ToString(k))) >>)]

PayloadFuncEnvs ==
    { [create |-> CreateOk(AgentId("A", 1)), start |-> StartOk(p),
       conts |-> ContinueTexts(MaxSize), today |-> "2026-01-01"] :
        p \in Payloads("func", MaxSize) }

PayloadImageEnvs ==
    { [create |-> CreateOk(AgentId("A", 1)),
       rounds |-> << [start |-> StartOk(p), download |-> DownloadOk("png-bytes")],
                     [start |-> StartOk(<< Message(StrContent("x")) >>),
                      download |-> DownloadOk("png-bytes")] >>] :
        p \in Payloads("image", MaxSize) }

NextPayload ==
    \/ SubmitCode({"p"}, PayloadCodeEnvs, FirstRoom)
    \/ SubmitWeb({"p"}, PayloadWebEnvs, FirstRoom)
    \/ SubmitOrch({"p"}, PayloadOrchEnvs, FirstRoom)
    \/ SubmitFunc({"p"}, PayloadFuncEnvs, FirstRoom)
    \/ SubmitImage({"p"}, PayloadImageEnvs, FirstRoom)

InitPayload == Init /\ api_key # ""

SpecPayload == InitPayload /\ [][NextPayload]_vars

(***************************************************************************)
(* Sessions: submissions and clears on the five pages, in any order, each  *)
(* remote call succeeding or failing.                                      *)
(***************************************************************************)
TextA == [shape |-> "dict", type |-> "text", text |-> "a"]

TextB == [shape |-> "obj", type |-> "text", text |-> "b"]

SessionCodeEnvs ==
    { [create |-> Fail("401 Unauthorized")] }
    \cup { [create |-> CreateOk(AgentId("A", 1)), start |-> r] :
             r \in Failures
                   \cup { StartOk(<< Message(StrContent("x")) >>),
                          StartOk(<< [shape |-> "obj", type |-> "tool.execution",
                                      name |-> "code_interpreter",
                                      info |-> [shape |-> "obj", code |-> "c1",
                                                code_output |-> "o1"]],
                                     Message(ListContent(<< TextA, TextB >>)) >>) } }

SessionWebEnvs ==
    { [create |-> Fail("401 Unauthorized")] }
    \cup { [create |-> CreateOk(AgentId("A", 1)), start |-> r] :
             r \in { Fail("timeout"),
                     StartOk(<< Message(ListContent(<<
                         TextA,
                         [shape |-> "dict", type |-> "tool_reference", tool |-> "web_search",
                          title |-> "t1", url |-> "u1"] >>)) >>) } }

\* The results of the creates and updates with the k-th call failing (k from 1
\* to 7: four creates, then three updates).
OrchFailingAt(k, msg) ==
    [creates |-> [i \in 1..Len(OrchAgentNames) |->
                     IF i = k THEN Fail(msg) ELSE CreateOk(AgentId("A", i))],
     updates |-> [i \in 1..Len(OrchHandoffGraph) |->
                     IF Len(OrchAgentNames) + i = k THEN Fail(msg) ELSE [ok |-> TRUE]]]

SessionOrchEnvs ==
    { OrchFailingAt(k, "401 Unauthorized") : k \in 1..(Len(OrchAgentNames) + Len(OrchHandoffGraph)) }
    \cup { [creates |-> OrchCreates("A"), updates |-> AllOk(Len(OrchHandoffGraph)), start |-> r] :
             r \in { Fail("timeout"),
                     StartOk(<< [shape |-> "obj", type |-> "handoff.execution",
                                 agent_id |-> AgentId("A", 2), inputs |-> "in"],
                                Message(StrContent("y")),
                                [shape |-> "obj", type |-> "tool.execution",
                                 name |-> "web_search",
                                 info |-> [shape |-> "dict", query |-> "q"]] >>) } }

RateCall == [shape |-> "obj", type |-> "tool.calls",
             tool_calls |-> << ToolCall("tc1", "get_interest_rate", "{\"region\": \"US\", \"date\": \"2024-01-01\"}") >>]

LoanCall == [shape |-> "obj", type |-> "tool.calls",
             tool_calls |-> << ToolCall("tc2", "calculate_loan_payment",
                 "{\"principal\": 12000, \"annual_interest_rate\": 0, \"term_years\": 1}") >>]

\* term_years is missing: the executor divides by zero.
BadLoanCall == [shape |-> "obj", type |-> "tool.calls",
                tool_calls |-> << ToolCall("tc3", "calculate_loan_payment", "{\"principal\": 1000}") >>]

SessionContinues ==
    { ContinueOk(<< Message(StrContent("r")) >>),
      ContinueOk(<< Message(ListContent(<< TextB >>)) >>),
      Fail("timeout") }

SessionFuncEnvs ==
    { [create |-> Fail("401 Unauthorized")],
      [create |-> CreateOk(AgentId("A", 1)), start |-> Fail("timeout")],
      [create |-> CreateOk(AgentId("A", 1)), start |-> StartOk(<< Message(StrContent("x")) >>),
       today |-> "2026-01-01"] }
    \cup { [create |-> CreateOk(AgentId("A", 1)), start |-> StartOk(p),
            conts |-> << c1, c2 >>, today |-> "2026-01-01"] :
             p \in { << Message(StrContent("x")), RateCall >>,
                     << RateCall, LoanCall >>,
                     << RateCall, BadLoanCall >> },
             c1 \in SessionContinues,
             c2 \in { ContinueOk(<< Message(StrContent("r")) >>), Fail("timeout") } }

SessionImageRounds ==
    { [start |-> Fail("timeout")],
      [start |-> StartOk(<< Message(StrContent("x")) >>)] }
    \cup { [start |-> StartOk(<< Message(ListContent(<<
                [shape |-> "dict", type |-> "tool_file", tool |-> "image_generation",
                 file_id |-> "f1", file_name |-> "n1", file_type |-> "png"] >>)) >>),
            download |-> d] : d \in { DownloadOk("png-bytes"), Fail("timeout") } }

SessionImageEnvs ==
    { [create |-> Fail("401 Unauthorized")] }
    \cup { [create |-> CreateOk(AgentId("A", 1)), rounds |-> << r1, r2 >>] :
             r1 \in SessionImageRounds, r2 \in SessionImageRounds }

Next ==
    \/ SubmitCode(Prompts, SessionCodeEnvs, MaxTurns)
    \/ SubmitWeb(Prompts, SessionWebEnvs, MaxTurns)
    \/ SubmitOrch(Prompts, SessionOrchEnvs, MaxTurns)
    \/ SubmitFunc(Prompts, SessionFuncEnvs, MaxTurns)
    \/ SubmitImage(Prompts, SessionImageEnvs, MaxTurns)
    \/ \E f \in Features : Clear(f)
    \/ SetApiKey

Spec == Init /\ [][Next]_vars

(***************************************************************************)
(* Partial payloads: first submissions whose payload lacks fields, holds   *)
(* values the normalizers cannot read, or asks for functions no executor   *)
(* can serve.                                                              *)
(***************************************************************************)
MessageNoContent == [shape |-> "obj", type |-> "message.output"]

ThrowingInfo(kind) == [shape |-> "obj", throws |-> kind, msg |-> "info unavailable"]

ThrowKinds == {"AttributeError", "Exception", "OnRead"}

PartialOrchItems ==
    { [shape |-> "obj", type |-> "tool.execution", name |-> "web_search",
       info |-> ThrowingInfo(k)] : k \in ThrowKinds }
    \cup { [shape |-> "obj", type |-> "tool.execution", name |-> "code_interpreter",
            info |-> [shape |-> "obj", code |-> "c1"]],
           [shape |-> "obj", type |-> "tool.execution"],
           [shape |-> "obj", type |-> "handoff.execution", agent_id |-> AgentId("A", 2)],
           Message(ListContent(<< TextA, [shape |-> "obj", type |-> "text"] >>)),
           MessageNoContent }

\* The sequences over S of length 1 to n.
SeqsUpTo(S, n) == UNION { SeqsOfLen(S, k) : k \in 1..n }

PartialOrchEnvs ==
    { [creates |-> OrchCreates("A"), updates |-> AllOk(Len(OrchHandoffGraph)), start |-> StartOk(p)] :
        p \in SeqsUpTo(PartialOrchItems, MaxSize) }

PartialCodeItems ==
    { MessageNoContent,
      Message(ListContent(<< [shape |-> "dict"], TextB >>)),
      [shape |-> "obj", type |-> "tool.execution", name |-> "code_interpreter"],
      [shape |-> "obj", type |-> "tool.execution", name |-> "code_interpreter",
       info |-> [shape |-> "dict"]],
      [shape |-> "obj"] }
    \cup ToolExecutions

PartialCodeEnvs ==
    { [create |-> CreateOk(AgentId("A", 1)), start |-> StartOk(p)] :
        p \in SeqsUpTo(PartialCodeItems, MaxSize) }

PartialReferences ==
    { [shape |-> "dict", type |-> "tool_reference", tool |-> "web_search"],
      [shape |-> "obj", type |-> "tool_reference", tool |-> "web_search_premium", url |-> "u2"],
      [shape |-> "dict", type |-> "tool_reference", title |-> "t3", url |-> "u3"],
      [shape |-> "obj", type |-> "tool_reference", title |-> "t4", source |-> "s4"],
      [shape |-> "obj", type |-> "tool_reference", tool |-> "document_library", title |-> "t5"] }

PartialWebEnvs ==
    { [create |-> CreateOk(AgentId("A", 1)), start |-> StartOk(<< Message(ListContent(l)) >>)] :
        l \in SeqsUpTo(PartialReferences \cup { TextA, [shape |-> "obj"] }, MaxSize) }
    \cup { [create |-> CreateOk(AgentId("A", 1)), start |-> StartOk(<< MessageNoContent >>)] }

PartialToolCalls ==
    { ToolCall("tc1", "get_interest_rate", "{\"region\": \"us\"}"),
      ToolCall("tc2", "get_interest_rate", "region=us"),
      ToolCall("tc3", "calculate_loan_payment", "12000 at 0% for 1 year"),
      ToolCall("tc4", "get_weather", "{}"),
      ToolCall("tc5", "calculate_loan_payment",
               "{\"principal\": 12000, \"annual_interest_rate\": 0, \"term_years\": 1}"),
      [shape |-> "obj", id |-> "tc6",
       function |-> [shape |-> "obj", name |-> "get_interest_rate"]],
      [shape |-> "obj", function |-> [shape |-> "obj", arguments |-> "{}"]],
      [shape |-> "obj", id |-> "tc8"],
      ToolCall("tc9", "calculate_loan_payment", "5") }

ToolCalls(tool_calls) == [shape |-> "obj", type |-> "tool.calls", tool_calls |-> tool_calls]

PartialFuncPayloads ==
    { << ToolCalls(l) >> : l \in SeqsUpTo(PartialToolCalls, MaxSize) }
    \cup { << m, ToolCalls(<< c >>) >> :
             m \in { MessageNoContent, Message(StrContent("x")) }, c \in PartialToolCalls }
    \cup { << MessageNoContent >>, << [shape |-> "obj", type |-> "tool.calls"] >> }

\* The continue results of one submission: all answered, or the k-th failing.
PartialContinues ==
    { ContinueTexts(MaxSize),
      [k \in 1..(MaxSize + 1) |->
          ContinueOk(<< Message(StrContent("r" \o ToString(k))),
                        ToolCalls(<< ToolCall("tc0", "get_interest_rate",
                                              "{\"region\": \"us\"}") >>) >>)] }
    \cup { [i \in 1..MaxSize |-> IF i = k THEN Fail("timeout") ELSE ContinueTexts(MaxSize)[i]] :
             k \in 1..MaxSize }

PartialFuncEnvs ==
    { [create |-> CreateOk(AgentId("A", 1)), start |-> StartOk(p),
       conts |-> cs, today |-> "2026-01-01"] :
        p \in PartialFuncPayloads, cs \in PartialContinues }

PartialImageItems ==
    { MessageNoContent,
      Message(StrContent("")),
      Message(ListContent(<< [shape |-> "obj", type |-> "tool_file", tool |-> "image_generation"],
                             [shape |-> "dict", type |-> "tool_file", file_id |-> "f3"] >>)),
      Message(ListContent(<< [shape |-> "dict", type |-> "tool_file",
                              tool |-> "image_generation", file_id |-> "f1"] >>)),
      [shape |-> "obj"] }

PartialImageRounds ==
    { [start |-> StartOk(p), download |-> DownloadOk("png-bytes")] :
        p \in SeqsUpTo(PartialImageItems, MaxSize - 1) }

PartialImageEnvs ==
    { [create |-> CreateOk(AgentId("A", 1)), rounds |-> << r1, r2 >>] :
        r1 \in PartialImageRounds,
        r2 \in { [start |-> StartOk(<< Message(StrContent("x")) >>),
                  download |-> DownloadOk("png-bytes")],
                 [start |-> StartOk(<< MessageNoContent >>),
                  download |-> DownloadOk("png-bytes")] } }

NextPartial ==
    \/ SubmitCode({"p"}, PartialCodeEnvs, FirstRoom)
    \/ SubmitWeb({"p"}, PartialWebEnvs, FirstRoom)
    \/ SubmitOrch({"p"}, PartialOrchEnvs, FirstRoom)
    \/ SubmitFunc({"p"}, PartialFuncEnvs, FirstRoom)
    \/ SubmitImage({"p"}, PartialImageEnvs, FirstRoom)

SpecPartial == InitPayload /\ [][NextPartial]_vars

(***************************************************************************)
(* Agent batches: sessions in which the remote service hands out new agent *)
(* ids to every submission.                                                *)
(***************************************************************************)
Batches == {"A", "B"}

\* The agent ids the create calls of a run returned.
CreatedIds(cs) == { cs[i].res.id : i \in { j \in 1..Len(cs) : cs[j].op = "create" /\ cs[j].res.ok } }

\* The batches the service can draw from: it never returns an id again that
\* it returned to the run before.
FreshBatches == { g \in Batches : \A k \in 1..Len(OrchAgentNames) : AgentId(g, k) \notin CreatedIds(calls) }

AgentsStarts == { Fail("timeout"), StartOk(<< Message(StrContent("x")) >>) }

AgentsCodeEnvs ==
    { [create |-> Fail("401 Unauthorized")] }
    \cup { [create |-> CreateOk(AgentId(g, 1)), start |-> r] : g \in FreshBatches, r \in AgentsStarts }

AgentsOrchEnvs ==
    { OrchFailingAt(2, "401 Unauthorized") }
    \cup { [creates |-> OrchCreates(g), updates |-> AllOk(Len(OrchHandoffGraph)), start |-> r] :
             g \in FreshBatches, r \in AgentsStarts }

AgentsFuncEnvs ==
    { [create |-> CreateOk(AgentId(g, 1)), start |-> StartOk(<< RateCall >>),
       conts |-> << c >>, today |-> "2026-01-01"] :
        g \in FreshBatches, c \in { ContinueOk(<< Message(StrContent("r")) >>), Fail("timeout") } }

AgentsImageEnvs ==
    { [create |-> CreateOk(AgentId(g, 1)), rounds |-> << [start |-> r1], [start |-> r2] >>] :
        g \in FreshBatches, r1 \in AgentsStarts, r2 \in AgentsStarts }

NextAgents ==
    \/ SubmitCode({"p"}, AgentsCodeEnvs, MaxTurns)
    \/ SubmitWeb({"p"}, AgentsCodeEnvs, MaxTurns)
    \/ SubmitOrch({"p"}, AgentsOrchEnvs, MaxTurns)
    \/ SubmitFunc({"p"}, AgentsFuncEnvs, MaxTurns)
    \/ SubmitImage({"p"}, AgentsImageEnvs, MaxTurns)

SpecAgents == InitPayload /\ [][NextAgents]_vars

(***************************************************************************)
(* Rate requests: first submissions on the function-calls page asking for  *)
(* the rates of two regions, every remote call answered.                   *)
(***************************************************************************)
RateRequests ==
    { << ToolCalls(<< ToolCall("tc1", "get_interest_rate", RegionArgs(r1)),
                      ToolCall("tc2", "get_interest_rate", RegionArgs(r2)) >>) >> :
        r1 \in RegionNames, r2 \in RegionNames }

RatesFuncEnvs ==
    { [create |-> CreateOk(AgentId("A", 1)), start |-> StartOk(p),
       conts |-> ContinueTexts(2), today |-> "2026-01-01"] : p \in RateRequests }

NextRates == SubmitFunc({"p"}, RatesFuncEnvs, FirstRoom)

SpecRates == InitPayload /\ [][NextRates]_vars

(***************************************************************************)
(* Loan requests: first submissions on the function-calls page asking for  *)
(* the payments of two loans, every remote call answered.                  *)
(***************************************************************************)
LoansFuncEnvs ==
    { [create |-> CreateOk(AgentId("A", 1)),
       start |-> StartOk(<< ToolCalls(<< ToolCall("tc1", "calculate_loan_payment", LoanArgs(l1)),
                                         ToolCall("tc2", "calculate_loan_payment", LoanArgs(l2)) >>) >>),
       conts |-> ContinueTexts(2), today |-> "2026-01-01"] :
        l1 \in LoanArguments, l2 \in LoanArguments }

NextLoans == SubmitFunc({"p"}, LoansFuncEnvs, FirstRoom)

SpecLoans == InitPayload /\ [][NextLoans]_vars

(***************************************************************************)
(* Vocabulary of the properties: the latest run read off the state, and    *)
(* the payload read by field name alone, whatever the shape.               *)
(***************************************************************************)
TextFeatures == {"code", "web", "orch", "func"}

IsType(o, t) == "type" \in DOMAIN o /\ o.type = t

StartIndexes(cs) == {i \in 1..Len(cs) : cs[i].op = "start"}

\* The latest run started a conversation and the remote service answered.
StartAnswered ==
    /\ StartIndexes(calls) # {}
    /\ \A i \in StartIndexes(calls) : calls[i].res.ok

\* The payload of the (first) start call of the latest run.
StartPayload == calls[CHOOSE i \in StartIndexes(calls) : \A j \in StartIndexes(calls) : i <= j].res.outputs

LastTurn(f) == hist[f][Len(hist[f])]

MessagesOf(outputs) == SelectSeq(outputs, LAMBDA o : IsType(o, "message.output"))

AllPlain(outputs) ==
    \A i \in 1..Len(outputs) :
        IsType(outputs[i], "message.output") => outputs[i].content.kind = "str"

\* The text of a sub-item whose type is "text", nothing for any other.
FragmentOf(item) ==
    IF "type" \in DOMAIN item /\ item.type = "text" /\ "text" \in DOMAIN item
    THEN item.text ELSE ""

RECURSIVE FragmentsOf(_)
FragmentsOf(items) ==
    IF items = <<>> THEN ""
    ELSE FragmentOf(Head(items)) \o FragmentsOf(Tail(items))

\* A list content holds a text sub-item with some text.
SomeTextInList(outputs) ==
    \E i \in 1..Len(outputs) :
        /\ IsType(outputs[i], "message.output")
        /\ outputs[i].content.kind = "list"
        /\ FragmentsOf(outputs[i].content.items) # ""

\* The payload holds a function-call request.
HasCallRequest(outputs) ==
    \E i \in 1..Len(outputs) :
        /\ IsType(outputs[i], "tool.calls")
        /\ "tool_calls" \in DOMAIN outputs[i]
        /\ \E j \in 1..Len(outputs[i].tool_calls) : "function" \in DOMAIN outputs[i].tool_calls[j]

\* The start payload's text is the turn's text: always on three pages, and on
\* the function-calls page when nothing is pending.
StartTextIsTurnText ==
    /\ event.page \in TextFeatures
    /\ StartAnswered
    /\ event.page = "func" => ~HasCallRequest(StartPayload)

RECURSIVE PlainConcat(_)
PlainConcat(messages) ==
    IF messages = <<>> THEN ""
    ELSE Head(messages).content.str \o PlainConcat(Tail(messages))

RECURSIVE ExpectedText(_)
ExpectedText(messages) ==
    IF messages = <<>> THEN ""
    ELSE (CASE Head(messages).content.kind = "str" -> Head(messages).content.str
            [] Head(messages).content.kind = "list" -> FragmentsOf(Head(messages).content.items)
            [] OTHER -> "")
         \o ExpectedText(Tail(messages))

(***************************************************************************)
(* C1. On the code-interpreter, web-search and orchestration pages, and on *)
(* the function-calls page when the start payload holds no function-call   *)
(* request: if every message output of the start payload has a plain       *)
(* string as content, the content of the assistant turn appended is the    *)
(* concatenation of those strings in payload order.                        *)
(***************************************************************************)
C1_PlainStringText ==
    (StartTextIsTurnText /\ AllPlain(StartPayload))
        => /\ LastTurn(event.page).role = "assistant"
           /\ LastTurn(event.page).content = PlainConcat(MessagesOf(StartPayload))

\* Two string messages around another output, in the order "y", "x".
C1_Witness ==
    /\ StartTextIsTurnText /\ AllPlain(StartPayload)
    /\ Len(StartPayload) = 3
    /\ Len(MessagesOf(StartPayload)) = 2
    /\ LastTurn(event.page).content = "yx"

(***************************************************************************)
(* The orchestration payload and registry, read off the calls of the run.  *)
(***************************************************************************)
\* The registry key create_orchestration_agents gives the agent of each name.
RegistryKeyOf(agent_name) ==
    CASE agent_name = "Finance Agent" -> "finance"
      [] agent_name = "Web Search Agent" -> "web_search"
      [] agent_name = "Calculator Agent" -> "calculator"
      [] agent_name = "Graph Agent" -> "graph"

CreatedAgents == {i \in 1..Len(calls) : calls[i].op = "create" /\ calls[i].res.ok}

\* The name the registry of the run resolves an agent id to.
ResolvedName(agent_id) ==
    IF \E i \in CreatedAgents : calls[i].res.id = agent_id
    THEN RegistryKeyOf(calls[CHOOSE i \in CreatedAgents : calls[i].res.id = agent_id].name)
    ELSE "Unknown Agent"

HandoffItems(outputs) == SelectSeq(outputs, LAMBDA o : IsType(o, "handoff.execution"))

HandoffId(item) == IF "agent_id" \in DOMAIN item THEN item.agent_id ELSE ""

HandoffInputs(item) == IF "inputs" \in DOMAIN item THEN item.inputs ELSE ""

OrchAnswered == event.page = "orch" /\ StartAnswered

(***************************************************************************)
(* C9. On the orchestration page the name stored in a handoff record is    *)
(* the registry key whose agent id equals the handoff item's agent id, and *)
(* "Unknown Agent" when no registry entry has that id, in particular when  *)
(* the handoff item carries no agent id.                                   *)
(***************************************************************************)
C9_HandoffName ==
    OrchAnswered =>
        LET items == HandoffItems(StartPayload)
            records == LastTurn("orch").handoffs
        IN  \A i \in 1..Len(items) :
                /\ i <= Len(records)
                /\ records[i].agent_name = ResolvedName(HandoffId(items[i]))
                /\ "agent_id" \notin DOMAIN items[i] => records[i].agent_name = "Unknown Agent"

\* A handoff to the graph agent, one to an unknown id and one without an id.
C9_Witness ==
    /\ OrchAnswered
    /\ Len(HandoffItems(StartPayload)) = 3
    /\ "agent_id" \notin DOMAIN HandoffItems(StartPayload)[3]
    /\ LastTurn("orch").handoffs[1].agent_name = "graph"
    /\ LastTurn("orch").handoffs[2].agent_id = "id-999"
    /\ LastTurn("orch").handoffs[2].agent_name = "Unknown Agent"
    /\ LastTurn("orch").handoffs[3].agent_name = "Unknown Agent"

(***************************************************************************)
(* C10. On the orchestration page the handoffs list of the appended        *)
(* assistant turn holds exactly one record per handoff-execution item of   *)
(* the payload, in payload order, however message outputs and tool         *)
(* executions are interleaved with them.                                   *)
(***************************************************************************)
C10_HandoffOrder ==
    OrchAnswered =>
        LET items == HandoffItems(StartPayload)
            records == LastTurn("orch").handoffs
        IN  /\ Len(records) = Len(items)
            /\ \A i \in 1..Len(items) :
                  /\ records[i].agent_id = HandoffId(items[i])
                  /\ records[i].inputs = HandoffInputs(items[i])

\* Two handoffs to different agents with another output between them.
C10_Witness ==
    /\ OrchAnswered
    /\ Len(StartPayload) = 3
    /\ IsType(StartPayload[1], "handoff.execution")
    /\ ~IsType(StartPayload[2], "handoff.execution")
    /\ IsType(StartPayload[3], "handoff.execution")
    /\ LastTurn("orch").handoffs[1].agent_name = "graph"
    /\ LastTurn("orch").handoffs[2].agent_name = "web_search"

(***************************************************************************)
(* Vocabulary of the session properties: the step that led to a state is   *)
(* read off event, calls and the histories before and after it.            *)
(***************************************************************************)
ConversationIndexes(cs) == {i \in 1..Len(cs) : cs[i].op \in {"start", "continue"}}

ContinueIndexes(cs) == {i \in 1..Len(cs) : cs[i].op = "continue"}

FailedIndexes(cs) == {i \in 1..Len(cs) : ~cs[i].res.ok}

\* A start or continue call of the run failed.
ConversationFailed(cs) == ConversationIndexes(cs) \cap FailedIndexes(cs) # {}

FailureMsg(cs) == cs[CHOOSE i \in ConversationIndexes(cs) \cap FailedIndexes(cs) : TRUE].res.msg

\* The error turn of page f: "Error: " and the message, every other list empty.
ErrorTurnOf(f, msg) ==
    CASE f = "code" -> [role |-> "assistant", content |-> "Error: " \o msg, code_blocks |-> <<>>]
      [] f = "web" -> [role |-> "assistant", content |-> "Error: " \o msg, sources |-> <<>>]
      [] f = "orch" -> [role |-> "assistant", content |-> "Error: " \o msg,
                        handoffs |-> <<>>, tool_executions |-> <<>>]
      [] f = "func" -> [role |-> "assistant", content |-> "Error: " \o msg,
                        function_calls |-> <<>>, function_results |-> <<>>]

\* The function-call requests of a payload that carry the id: pairs of the
\* index of a tool.calls output and the index of a request in it.
Requests(outputs, id) ==
    UNION { { <<i, j>> : j \in { k \in 1..Len(outputs[i].tool_calls) :
                                   /\ "id" \in DOMAIN outputs[i].tool_calls[k]
                                   /\ outputs[i].tool_calls[k].id = id } } :
            i \in { k \in 1..Len(outputs) :
                      IsType(outputs[k], "tool.calls") /\ "tool_calls" \in DOMAIN outputs[k] } }

AllRequests(outputs) ==
    UNION { { <<i, j>> : j \in 1..Len(outputs[i].tool_calls) } :
            i \in { k \in 1..Len(outputs) :
                      IsType(outputs[k], "tool.calls") /\ "tool_calls" \in DOMAIN outputs[k] } }

RECURSIVE ContinuePayloads(_)
ContinuePayloads(cs) ==
    IF cs = <<>> THEN <<>>
    ELSE (IF Head(cs).op = "continue" /\ Head(cs).res.ok THEN Head(cs).res.outputs ELSE <<>>)
         \o ContinuePayloads(Tail(cs))

\* The payloads the turn of the latest run is normalised from: the continue
\* payloads when the start payload asked for function calls, else the start
\* payload.
TurnPayloads ==
    IF event.page = "func" /\ HasCallRequest(StartPayload)
    THEN ContinuePayloads(calls)
    ELSE StartPayload

\* Every remote call of the latest run was answered, one continue call per
\* function-call request.
AllAnswered ==
    /\ StartAnswered
    /\ FailedIndexes(calls) = {}
    /\ event.page = "func" =>
          Cardinality(ContinueIndexes(calls)) = Cardinality(AllRequests(StartPayload))

(***************************************************************************)
(* C2. When the content of a message output is a list, the turn text       *)
(* receives, in list order, the text of exactly the sub-items whose type   *)
(* is "text", whether a sub-item is a mapping or an attribute-bearing      *)
(* object; sub-items of any other type contribute nothing, and fragments   *)
(* are never reordered or deduplicated.                                    *)
(***************************************************************************)
C2_ListText ==
    (event.page \in TextFeatures /\ AllAnswered /\ SomeTextInList(TurnPayloads))
        => LastTurn(event.page).content = ExpectedText(MessagesOf(TurnPayloads))

(***************************************************************************)
(* C3. If the start or a continue call fails during a submission on the    *)
(* code-interpreter, web-search, orchestration or function-calls page,     *)
(* exactly one assistant turn whose content is "Error: " followed by the   *)
(* failure message, with empty auxiliary lists, is appended right after    *)
(* the user turn of that submission; and a submission on a history that    *)
(* holds such a turn proceeds as any other: its user turn and one          *)
(* assistant turn are appended to the history as it stood.                 *)
(***************************************************************************)
C3_Step ==
    \A f \in TextFeatures :
        (event'.page = f /\ StartIndexes(calls') # {}) =>
            LET n == Len(hist[f])
            IN  /\ Len(hist'[f]) = n + 2
                /\ SubSeq(hist'[f], 1, n) = hist[f]
                /\ hist'[f][n + 1] = [role |-> "user", content |-> event'.prompt]
                /\ hist'[f][n + 2].role = "assistant"
                /\ ConversationFailed(calls') =>
                      hist'[f][n + 2] = ErrorTurnOf(f, FailureMsg(calls'))
                /\ (f # "func" /\ ~ConversationFailed(calls')) =>
                      hist'[f][n + 2].content = ExpectedText(MessagesOf(StartPayload'))

C3_ErrorTurn == [][C3_Step]_vars

\* A failed start on the code page, then a submission that is answered.
C3_Witness ==
    /\ event.page = "code"
    /\ Len(hist["code"]) = 4
    /\ hist["code"][2] = ErrorTurnOf("code", "timeout")
    /\ hist["code"][3].role = "user"
    /\ hist["code"][4].content = "x"
    /\ hist["code"][4].code_blocks = <<>>

(***************************************************************************)
(* C4. A failure of the remote service while the agent is provisioned for  *)
(* a submission (create-agent, or update-agent on the orchestration page)  *)
(* is surfaced as an error-content assistant turn appended to the history  *)
(* of that page.                                                           *)
(***************************************************************************)
ProvisionFailed(cs) ==
    /\ cs # <<>>
    /\ cs[Len(cs)].op \in {"create", "update"}
    /\ ~cs[Len(cs)].res.ok

C4_Step ==
    \A f \in Features :
        (event'.page = f /\ ProvisionFailed(calls')) =>
            LET msg == calls'[Len(calls')].res.msg
            IN  /\ Len(hist'[f]) > Len(hist[f])
                /\ hist'[f][Len(hist'[f])].role = "assistant"
                /\ hist'[f][Len(hist'[f])].content
                       \in {msg, "Error: " \o msg} \cup {st_errors'[i] : i \in 1..Len(st_errors')}

C4_ProvisionErrorTurn == [][C4_Step]_vars

(***************************************************************************)
(* C5. No remote call is retried: on the code-interpreter, web-search,     *)
(* orchestration and function-calls pages a submission starts a            *)
(* conversation at most once and continues it at most once per pending     *)
(* function call, and once a remote call of the submission has failed no   *)
(* further remote call is made in that submission.                         *)
(***************************************************************************)
C5_NoRetry ==
    event.page \in TextFeatures =>
        /\ Cardinality(StartIndexes(calls)) <= 1
        /\ \A i \in ContinueIndexes(calls) :
              /\ StartAnswered
              /\ \A j \in StartIndexes(calls) : j < i
              /\ Cardinality({j \in ContinueIndexes(calls) :
                                 calls[j].tool_call_id = calls[i].tool_call_id})
                     <= Cardinality(Requests(StartPayload, calls[i].tool_call_id))
        /\ \A i, j \in 1..Len(calls) :
              (calls[i].op = "create" /\ calls[j].op = "create"
                  /\ calls[i].name = calls[j].name) => i = j
        /\ \A i, j \in 1..Len(calls) :
              (calls[i].op = "update" /\ calls[j].op = "update"
                  /\ calls[i].agent_id = calls[j].agent_id) => i = j
        /\ \A i \in FailedIndexes(calls) : i = Len(calls)

\* Two function calls pending, the first continued, the second continue failing.
C5_Witness ==
    /\ event.page = "func"
    /\ Len(calls) = 4
    /\ calls[2].op = "start"
    /\ Cardinality(AllRequests(StartPayload)) = 2
    /\ calls[3].op = "continue" /\ calls[3].res.ok
    /\ calls[4].op = "continue" /\ ~calls[4].res.ok
    /\ LastTurn("func") = ErrorTurnOf("func", "timeout")

(***************************************************************************)
(* C6. Clearing the history of a page sets it to the empty sequence, and   *)
(* the next submission on that page leaves a history that holds only the   *)
(* turns of that submission.                                               *)
(***************************************************************************)
TurnsPerSubmission(f) == IF f = "image" THEN 1 + num_images_to_generate ELSE 2

C6_Step ==
    \A f \in Features :
        /\ (event'.page = f /\ event'.key = ClearKey(f)) => hist'[f] = <<>>
        /\ (event'.page = f /\ hist[f] = <<>> /\ hist'[f] # <<>>) =>
              /\ Len(hist'[f]) = TurnsPerSubmission(f)
              /\ hist'[f][1] = [role |-> "user", content |-> event'.prompt]
              /\ \A i \in 2..Len(hist'[f]) : hist'[f][i].role = "assistant"

C6_ClearThenFresh == [][C6_Step]_vars

\* The code history was just cleared while the web history still holds turns.
C6_Witness ==
    /\ event.page = "code"
    /\ event.key = ClearKey("code")
    /\ hist["code"] = <<>>
    /\ Len(hist["web"]) = 2

(***************************************************************************)
(* C7. The five histories are never merged: a submission, successful or    *)
(* failed, or a clear on one page leaves the histories of the other four   *)
(* pages unchanged, and no turn of one page appears in the history of      *)
(* another.                                                                *)
(***************************************************************************)
\* The fields of the assistant turns of page f (an image error turn carries
\* image_data alone).
TurnFields(f) ==
    CASE f = "code" -> {{"role", "content", "code_blocks"}}
      [] f = "web" -> {{"role", "content", "sources"}}
      [] f = "orch" -> {{"role", "content", "handoffs", "tool_executions"}}
      [] f = "func" -> {{"role", "content", "function_calls", "function_results"}}
      [] f = "image" -> {{"role", "content", "image_data", "image_file_name", "image_file_type"},
                         {"role", "content", "image_data"}}

C7_Step ==
    \A g \in Features :
        /\ g # event'.page => hist'[g] = hist[g]
        /\ \A i \in 1..Len(hist'[g]) :
              IF hist'[g][i].role = "user"
              THEN DOMAIN hist'[g][i] = {"role", "content"}
              ELSE DOMAIN hist'[g][i] \in TurnFields(g)

C7_NeverMerged == [][C7_Step]_vars

\* The orchestration history was just cleared next to a function-calls history
\* that holds an error turn.
C7_Witness ==
    /\ event.page = "orch"
    /\ event.key = ClearKey("orch")
    /\ hist["orch"] = <<>>
    /\ Len(hist["func"]) = 2
    /\ hist["func"][2] = ErrorTurnOf("func", "timeout")

(***************************************************************************)
(* C8. Each history is append-only between clears: over any step that is   *)
(* not a clear of the page, the earlier history is a prefix of the later   *)
(* one, so its length never decreases until a clear.                       *)
(***************************************************************************)
C8_Step ==
    \A f \in Features :
        ~(event'.page = f /\ event'.key = ClearKey(f)) =>
            /\ Len(hist'[f]) >= Len(hist[f])
            /\ SubSeq(hist'[f], 1, Len(hist[f])) = hist[f]

C8_AppendOnly == [][C8_Step]_vars

\* Two submissions on the web-search page, the second appended to the first.
C8_Witness ==
    /\ event.page = "web"
    /\ Len(hist["web"]) = 4
    /\ hist["web"][2] = ErrorTurnOf("web", "timeout")
    /\ hist["web"][4].content = "a"

(***************************************************************************)
(* Partial payloads read by field name: what a payload holds, whatever     *)
(* the normalizers make of it.                                             *)
(***************************************************************************)
\* Every message output of the payload carries a content.
AllHaveContent(outputs) ==
    \A i \in 1..Len(outputs) :
        IsType(outputs[i], "message.output") => "content" \in DOMAIN outputs[i]

ToolItems(outputs) == SelectSeq(outputs, LAMBDA o : IsType(o, "tool.execution"))

\* The info object of a tool execution fails on attribute access.
InfoFails(item) == "info" \in DOMAIN item /\ "throws" \in DOMAIN item.info

\* The mapping of the attributes of an info value that can be read.
InfoMapping(item) ==
    IF "info" \notin DOMAIN item THEN [shape |-> "dict"]
    ELSE [k \in DOMAIN item.info |-> IF k = "shape" THEN "dict" ELSE item.info[k]]

(***************************************************************************)
(* C11. On the orchestration page, a tool-execution item whose info object *)
(* fails on attribute access yields a tool record with an empty info       *)
(* mapping, for that item only: the turn appended is not an error turn,    *)
(* and it holds the record of every other tool execution, the record of    *)
(* every handoff and the text of every message output of the payload.      *)
(***************************************************************************)
C11_FailingInfo ==
    (/\ OrchAnswered
     /\ AllHaveContent(StartPayload)
     /\ \E i \in 1..Len(StartPayload) :
            IsType(StartPayload[i], "tool.execution") /\ InfoFails(StartPayload[i]))
        => LET items == ToolItems(StartPayload)
               records == LastTurn("orch").tool_executions
           IN  /\ st_errors = <<>>
               /\ LastTurn("orch").content = ExpectedText(MessagesOf(StartPayload))
               /\ Len(LastTurn("orch").handoffs) = Len(HandoffItems(StartPayload))
               /\ Len(records) = Len(items)
               /\ \A i \in 1..Len(items) :
                      records[i].info = IF InfoFails(items[i]) THEN [shape |-> "dict"]
                                        ELSE InfoMapping(items[i])

\* The function-call requests of a payload, in payload order: the tool calls
\* that carry a function.
RECURSIVE RequestsOf(_)
RequestsOf(outputs) ==
    IF outputs = <<>> THEN <<>>
    ELSE (IF IsType(Head(outputs), "tool.calls") /\ "tool_calls" \in DOMAIN Head(outputs)
          THEN SelectSeq(Head(outputs).tool_calls, LAMBDA c : "function" \in DOMAIN c)
          ELSE <<>>)
         \o RequestsOf(Tail(outputs))

RequestId(c) == IF "id" \in DOMAIN c THEN c.id ELSE ""

RequestName(c) == IF "name" \in DOMAIN c.function THEN c.function.name ELSE ""

\* The request carries an argument string that is no JSON text.
Unparseable(c) == "arguments" \in DOMAIN c.function /\ ~JsonLoads(c.function.arguments).ok

FuncAnswered == event.page = "func" /\ StartAnswered /\ FailedIndexes(calls) = {}

(***************************************************************************)
(* C12. On the function-calls page, a function-call request whose argument *)
(* string is no JSON text is recorded with its id, its function name and   *)
(* the arguments {"raw_args": <the string>}: it is in the function_calls   *)
(* of the appended turn, in its place, and the turn is not an error turn.  *)
(***************************************************************************)
C12_RawArgs ==
    (/\ FuncAnswered
     /\ AllHaveContent(StartPayload)
     /\ \E i \in 1..Len(RequestsOf(StartPayload)) : Unparseable(RequestsOf(StartPayload)[i]))
        => LET requests == RequestsOf(StartPayload)
               records == LastTurn("func").function_calls
           IN  /\ st_errors = <<>>
               /\ Len(records) = Len(requests)
               /\ \A i \in 1..Len(requests) :
                      Unparseable(requests[i]) =>
                          records[i] = [tool_call_id |-> RequestId(requests[i]),
                                        function_name |-> RequestName(requests[i]),
                                        arguments |-> [shape |-> "dict",
                                                       raw_args |-> requests[i].function.arguments]]

RegisteredNames == {"get_interest_rate", "calculate_loan_payment"}

\* The requests of the start payload that name a local executor, in order.
RegisteredRequests ==
    SelectSeq(RequestsOf(StartPayload), LAMBDA c : RequestName(c) \in RegisteredNames)

\* The arguments of a request as the executor receives them.
RequestArgs(c) ==
    IF "arguments" \notin DOMAIN c.function THEN [shape |-> "dict"]
    ELSE IF JsonLoads(c.function.arguments).ok THEN JsonLoads(c.function.arguments).v
         ELSE [shape |-> "dict", raw_args |-> c.function.arguments]

Argument(args, k, default) == IF k \in DOMAIN args THEN args[k] ELSE default

\* The date of every drawn run.
Today == "2026-01-01"

\* What the executor named by a request makes of it: [raised, v].
ExecutorResult(c) ==
    LET args == RequestArgs(c)
    IN  IF args.shape # "dict" THEN [raised |-> TRUE]
        ELSE IF RequestName(c) = "get_interest_rate"
             THEN [raised |-> FALSE,
                   v |-> get_interest_rate(Argument(args, "region", ""),
                                           Argument(args, "date", None), Today)]
             ELSE calculate_loan_payment(Argument(args, "principal", 0),
                                         Argument(args, "annual_interest_rate", 0),
                                         Argument(args, "term_years", 0))

ContinueCalls == SelectSeq(calls, LAMBDA c : c.op = "continue")

StartConversationId ==
    calls[CHOOSE i \in StartIndexes(calls) : TRUE].res.conversation_id

\* The i-th continue call answers the i-th registered request.
ContinueAnswers(i) ==
    LET c == RegisteredRequests[i]
        call == ContinueCalls[i]
    IN  /\ ~ExecutorResult(c).raised
        /\ call.conversation_id = StartConversationId
        /\ call.tool_call_id = RequestId(c)
        /\ call.result = [json |-> ExecutorResult(c).v]

\* function_results is the sub-list of function_calls with registered names:
\* the same ids in the same order, each with its executor's result.
ResultsFollowCalls ==
    LET records == SelectSeq(LastTurn("func").function_calls,
                             LAMBDA r : r.function_name \in RegisteredNames)
        results == LastTurn("func").function_results
    IN  /\ Len(results) = Len(records)
        /\ \A i \in 1..Len(records) :
               /\ results[i].tool_call_id = records[i].tool_call_id
               /\ results[i].function_name = records[i].function_name

FuncStarted == event.page = "func" /\ StartAnswered

(***************************************************************************)
(* C13 as stated. On the function-calls page, for each request of the      *)
(* start payload that names get_interest_rate or calculate_loan_payment,   *)
(* in request order, exactly one continue call is issued, with the start   *)
(* response's conversation id, the request's id and the serialized result  *)
(* of its executor; no other continue call is issued; and function_results *)
(* is the sub-list of function_calls with registered names.                *)
(***************************************************************************)
C13_OneContinuePerRequest ==
    FuncStarted =>
        /\ Len(ContinueCalls) = Len(RegisteredRequests)
        /\ \A i \in 1..Len(ContinueCalls) : ContinueAnswers(i)
        /\ ResultsFollowCalls

(***************************************************************************)
(* C13. On the function-calls page the continue calls of a submission      *)
(* answer, one each and in request order, the leading requests of the      *)
(* start payload that name get_interest_rate or calculate_loan_payment,    *)
(* each with the start response's conversation id, the request's id and    *)
(* the serialized result of its executor; requests with another name get   *)
(* no continue call. Every such request is answered when the submission    *)
(* ends in a normal turn, whose function_results is then the sub-list of   *)
(* function_calls with registered names; requests are left unanswered only *)
(* when the submission ends in an error turn.                              *)
(***************************************************************************)
C13_ContinuePrefix ==
    FuncStarted =>
        /\ Len(ContinueCalls) <= Len(RegisteredRequests)
        /\ \A i \in 1..Len(ContinueCalls) : ContinueAnswers(i)
        /\ ResultsFollowCalls
        /\ st_errors = <<>> =>
              /\ Len(ContinueCalls) = Len(RegisteredRequests)
              /\ Len(LastTurn("func").function_results) = Len(RegisteredRequests)
              /\ \A i \in 1..Len(RegisteredRequests) :
                     LastTurn("func").function_results[i].result
                         = ExecutorResult(RegisteredRequests[i]).v
        /\ Len(ContinueCalls) < Len(RegisteredRequests) =>
              /\ Len(st_errors) = 1
              /\ LastTurn("func") = [role |-> "assistant", content |-> st_errors[1],
                                     function_calls |-> <<>>, function_results |-> <<>>]

\* Two registered requests around one for get_weather, both answered.
C13_Witness ==
    /\ FuncStarted
    /\ st_errors = <<>>
    /\ Len(RequestsOf(StartPayload)) = 3
    /\ RequestName(RequestsOf(StartPayload)[2]) = "get_weather"
    /\ Len(ContinueCalls) = 2
    /\ ContinueCalls[1].tool_call_id = "tc1"
    /\ ContinueCalls[2].tool_call_id = "tc5"
    /\ LastTurn("func").function_results[2].result.monthly_payment = 100000

\* The latest run is an image submission that reached the loop.
ImageStarted == event.page = "image" /\ StartIndexes(calls) # {}

\* The positions of the start calls of the latest run, in order.
RoundStarts == SelectSeq([i \in 1..Len(calls) |-> i], LAMBDA i : calls[i].op = "start")

\* The turn appended for round k of the latest image submission.
RoundTurn(k) == hist["image"][Len(hist["image"]) - num_images_to_generate + k]

\* The download call of round k, if one was made: the calls after the round's
\* start call and before the next start call.
RoundDownloads(k) ==
    { i \in 1..Len(calls) :
        /\ calls[i].op = "download"
        /\ i > RoundStarts[k]
        /\ k < Len(RoundStarts) => i < RoundStarts[k + 1] }

\* The image bytes round k retrieved, None when it retrieved none.
RoundImage(k) ==
    IF \E i \in RoundDownloads(k) : calls[i].res.ok
    THEN calls[CHOOSE i \in RoundDownloads(k) : calls[i].res.ok].res.data
    ELSE None

RoundErrorTurn(k, msg) ==
    [role |-> "assistant",
     content |-> "Error generating image " \o ToString(k) \o ": " \o msg,
     image_data |-> None]

(***************************************************************************)
(* C14. An image submission that reaches the loop issues exactly two start *)
(* calls, one after the other, and appends the user turn and then one      *)
(* assistant turn per start call. A start call that fails gives the error  *)
(* turn of its round and nothing else: the second start call is made       *)
(* whether or not the first failed, and the turn of a round whose start    *)
(* call succeeded holds the text and the image bytes of that round         *)
(* whatever happens in the other round.                                    *)
(***************************************************************************)
C14_TwoRounds ==
    ImageStarted =>
        /\ Len(RoundStarts) = 2
        /\ Len(hist["image"]) >= 3
        /\ hist["image"][Len(hist["image"]) - 2] = [role |-> "user", content |-> event.prompt]
        /\ \A k \in 1..2 :
              LET res == calls[RoundStarts[k]].res
              IN  /\ RoundTurn(k).role = "assistant"
                  /\ ~res.ok => RoundTurn(k) = RoundErrorTurn(k, res.msg)
                  /\ res.ok =>
                        /\ "image_file_name" \in DOMAIN RoundTurn(k)
                        /\ RoundTurn(k).image_data = RoundImage(k)
                        /\ ExpectedText(MessagesOf(res.outputs)) # ""
                              => RoundTurn(k).content = ExpectedText(MessagesOf(res.outputs))

\* The first round retrieved an image and the second failed.
C14_Witness ==
    /\ ImageStarted
    /\ Len(RoundStarts) = 2
    /\ calls[RoundStarts[1]].res.ok
    /\ ~calls[RoundStarts[2]].res.ok
    /\ RoundTurn(1).image_data = "png-bytes"
    /\ RoundTurn(2) = RoundErrorTurn(2, "timeout")

\* The create call of the run whose agent a conversation is started with:
\* the finance agent on the orchestration page, the page's one agent elsewhere.
StartingAgentCreates ==
    { j \in 1..Len(calls) :
        /\ calls[j].op = "create"
        /\ calls[j].res.ok
        /\ event.page = "orch" => calls[j].name = "Finance Agent" }

C15_Step ==
    \A i \in StartIndexes(calls') :
        /\ \E j \in StartingAgentCreates' : j < i /\ calls'[i].agent_id = calls'[j].res.id
        /\ calls'[i].agent_id \notin CreatedIds(calls)

(***************************************************************************)
(* C15. Every submission provisions its own agent: on every page, each     *)
(* start call of a submission comes after a create call of the same        *)
(* submission and passes the id that create call returned (the one of the  *)
(* Finance Agent on the orchestration page); it never passes an id created *)
(* by the submission before.                                               *)
(***************************************************************************)
C15_OwnAgent == [][C15_Step]_vars

\* A second submission, started with an agent of the second batch.
C15_Witness ==
    /\ Len(hist["orch"]) = 2
    /\ Len(hist["code"]) = 2
    /\ event.page = "orch"
    /\ StartIndexes(calls) # {}
    /\ \A i \in StartIndexes(calls) : calls[i].agent_id = "ag-B1"

\* The payload was received and nothing but its normalization can fail: no
\* remote call failed, no info object fails on access, no executor raises.
OnlyNormalizes ==
    /\ event.page \in TextFeatures
    /\ StartAnswered
    /\ FailedIndexes(calls) = {}
    /\ \A i \in 1..Len(StartPayload) : ~InfoFails(StartPayload[i])
    /\ event.page = "func" =>
          \A i \in 1..Len(RegisteredRequests) : ~ExecutorResult(RegisteredRequests[i]).raised

(***************************************************************************)
(* C16. Normalizing a payload that was received never fails because an     *)
(* optional field (type, content, text, agent_id, inputs, name, info,      *)
(* tool_calls, id, arguments) is absent from an output item or a content   *)
(* sub-item: the turn appended is a normal assistant turn, not an error    *)
(* turn.                                                                   *)
(***************************************************************************)
C16_AbsentFields ==
    OnlyNormalizes =>
        /\ st_errors = <<>>
        /\ LastTurn(event.page).role = "assistant"
        /\ \A m \in {NoContentMsg, NoGetMsg, NoTypeMsg} :
               LastTurn(event.page).content # "Error: " \o m

\* A continue payload of the latest run holds a message output whose content
\* is a list.
ContinueListContent ==
    \E i \in 1..Len(ContinuePayloads(calls)) :
        /\ IsType(ContinuePayloads(calls)[i], "message.output")
        /\ ContinuePayloads(calls)[i].content.kind = "list"

(***************************************************************************)
(* C17. On the function-calls page the text of a continue payload whose    *)
(* message content is a list is extracted as it is from a start payload:   *)
(* the text of the sub-items of type "text", mappings and attribute-       *)
(* bearing objects alike, in list order; no shape of sub-item turns the    *)
(* submission into an error turn.                                          *)
(***************************************************************************)
C17_ContinueListText ==
    (/\ FuncStarted
     /\ FailedIndexes(calls) = {}
     /\ \A i \in 1..Len(RegisteredRequests) : ~ExecutorResult(RegisteredRequests[i]).raised
     /\ ContinueListContent)
        => /\ st_errors = <<>>
           /\ LastTurn("func").content = ExpectedText(MessagesOf(ContinuePayloads(calls)))

\* The sub-items of the list contents of a payload, in payload order.
RECURSIVE SubItemsOf(_)
SubItemsOf(outputs) ==
    IF outputs = <<>> THEN <<>>
    ELSE (IF /\ IsType(Head(outputs), "message.output")
             /\ "content" \in DOMAIN Head(outputs)
             /\ Head(outputs).content.kind = "list"
          THEN Head(outputs).content.items
          ELSE <<>>)
         \o SubItemsOf(Tail(outputs))

References(outputs) == SelectSeq(SubItemsOf(outputs), LAMBDA x : IsType(x, "tool_reference"))

\* A reference made by one of the two web-search tools.
IsCitation(x) == "tool" \in DOMAIN x /\ x.tool \in {"web_search", "web_search_premium"}

Citations(outputs) == SelectSeq(References(outputs), IsCitation)

FieldOr(x, k) == IF k \in DOMAIN x THEN x[k] ELSE ""

SourceRecord(x) ==
    [title |-> FieldOr(x, "title"), url |-> FieldOr(x, "url"), source |-> FieldOr(x, "source")]

WebNormalized == event.page = "web" /\ StartAnswered /\ AllHaveContent(StartPayload)

(***************************************************************************)
(* C18 as stated. On the web-search page every sub-item of type            *)
(* "tool_reference" of a list content yields exactly one source record     *)
(* {title, url, source}, in payload order, a field the sub-item lacks      *)
(* being the empty string; none is omitted because a field is missing.     *)
(***************************************************************************)
C18_EveryReference ==
    WebNormalized =>
        LET refs == References(StartPayload)
            sources == LastTurn("web").sources
        IN  /\ Len(sources) = Len(refs)
            /\ \A i \in 1..Len(refs) : sources[i] = SourceRecord(refs[i])

(***************************************************************************)
(* C18. On the web-search page every sub-item of type "tool_reference"     *)
(* whose tool is web_search or web_search_premium yields exactly one       *)
(* source record {title, url, source}, in payload order, each of the three *)
(* fields the sub-item lacks being the empty string, for mappings and      *)
(* attribute-bearing objects alike; a reference whose tool field is        *)
(* missing or names another tool yields no record.                         *)
(***************************************************************************)
C18_WebSearchReferences ==
    WebNormalized =>
        LET refs == Citations(StartPayload)
            sources == LastTurn("web").sources
        IN  /\ Len(sources) = Len(refs)
            /\ \A i \in 1..Len(refs) : sources[i] = SourceRecord(refs[i])

\* A mapping without title, url and source, a reference without a tool and an
\* object with a url alone: two records, in that order.
C18_Witness ==
    /\ WebNormalized
    /\ Len(References(StartPayload)) = 3
    /\ References(StartPayload)[1].shape = "dict"
    /\ ~IsCitation(References(StartPayload)[2])
    /\ References(StartPayload)[3].shape = "obj"
    /\ LastTurn("web").sources = << [title |-> "", url |-> "", source |-> ""],
                                    [title |-> "", url |-> "u2", source |-> ""] >>

(***************************************************************************)
(* C19. On the image page the content of the assistant turn appended for   *)
(* a round whose start call succeeded is exactly the text extracted from   *)
(* that round's payload, also when that text is empty: the content is the  *)
(* empty string, or the payload holds no text fragment.                    *)
(***************************************************************************)
C19_ImageText ==
    ImageStarted =>
        \A k \in 1..Len(RoundStarts) :
            LET res == calls[RoundStarts[k]].res
            IN  (res.ok /\ AllHaveContent(res.outputs))
                    => RoundTurn(k).content = ExpectedText(MessagesOf(res.outputs))

\* The keys of the rate table, each with the spellings that differ from it
\* in case alone.
RegionKeys == {"us", "ecb", "uk", "japan", "australia", "canada"}

Spellings(key) ==
    CASE key = "us" -> {"us", "US", "Us", "uS"}
      [] key = "ecb" -> {"ecb", "ECB", "Ecb"}
      [] key = "uk" -> {"uk", "UK", "Uk", "uK"}
      [] key = "japan" -> {"japan", "JAPAN", "Japan"}
      [] key = "australia" -> {"australia", "AUSTRALIA", "Australia"}
      [] key = "canada" -> {"canada", "CANADA", "Canada"}

RateFields == {"interest_rate", "central_bank", "last_updated"}

\* The region a request asks for.
RequestRegion(c) == Argument(RequestArgs(c), "region", "")

\* result is the record of the rate table's entry key.
IsRateRecord(result, key) ==
    /\ "error" \notin DOMAIN result
    /\ RateFields \subseteq DOMAIN result
    /\ \A f \in RateFields : result[f] = get_interest_rate(key, None, Today)[f]

\* result is the error record: the six keys listed, no rate field.
IsUnknownRegion(result) ==
    /\ DOMAIN result = {"shape", "error", "available_regions"}
    /\ Len(result.available_regions) = Cardinality(RegionKeys)
    /\ { result.available_regions[i] : i \in 1..Len(result.available_regions) } = RegionKeys

(***************************************************************************)
(* C20. get_interest_rate matches the region against the keys us, ecb, uk, *)
(* japan, australia and canada whatever the case of its letters: a         *)
(* spelling of a key in another case ("US" for "us") resolves to the       *)
(* record of that key, and a region that is no key in any case gives an    *)
(* error record listing the six keys, without any rate field.              *)
(***************************************************************************)
C20_RegionLookup ==
    (FuncStarted /\ st_errors = <<>>) =>
        \A i \in 1..Len(RegisteredRequests) :
            LET c == RegisteredRequests[i]
                result == LastTurn("func").function_results[i].result
            IN  RequestName(c) = "get_interest_rate" =>
                    /\ \A key \in RegionKeys :
                           RequestRegion(c) \in Spellings(key) => IsRateRecord(result, key)
                    /\ (\A key \in RegionKeys : RequestRegion(c) \notin Spellings(key))
                           => IsUnknownRegion(result)

\* "US" answered with the record of "us", and "Mars" with the error record.
C20_Witness ==
    /\ FuncStarted
    /\ st_errors = <<>>
    /\ Len(RegisteredRequests) = 2
    /\ RequestRegion(RegisteredRequests[1]) = "US"
    /\ RequestRegion(RegisteredRequests[2]) = "Mars"
    /\ LastTurn("func").function_results[1].result.interest_rate = "5.5%"
    /\ LastTurn("func").function_results[1].result.central_bank = "Federal Reserve"
    /\ IsUnknownRegion(LastTurn("func").function_results[2].result)

\* The loan a request asks the payments of.
RequestLoan(c) ==
    [principal |-> Argument(RequestArgs(c), "principal", 0),
     rate |-> Argument(RequestArgs(c), "annual_interest_rate", 0),
     term |-> Argument(RequestArgs(c), "term_years", 0)]

IsLoanRequest(c) == RequestName(c) = "calculate_loan_payment"

\* A loan at the rate 0 over at least one year.
IsFlatLoan(c) == IsLoanRequest(c) /\ RequestLoan(c).rate = 0 /\ RequestLoan(c).term > 0

\* cents is the amount num / den to the nearest hundredth.
NearestCent(cents, num, den) ==
    /\ 2 * (cents * den - 100 * num) <= den
    /\ 2 * (100 * num - cents * den) <= den

(***************************************************************************)
(* C21. calculate_loan_payment at an annual interest rate of exactly 0 and *)
(* term_years > 0 amortizes flat and does not divide by zero: the result   *)
(* has number_of_payments = term_years * 12, monthly_payment = principal / *)
(* number_of_payments (to the cent, amounts being rounded to two           *)
(* decimals), total_payment = principal and total_interest = 0.            *)
(***************************************************************************)
C21_ZeroRateLoan ==
    FuncStarted =>
        \A i \in 1..Len(RegisteredRequests) :
            LET c == RegisteredRequests[i]
                loan == RequestLoan(c)
            IN  (IsFlatLoan(c) /\ Len(ContinueCalls) >= i - 1) =>
                    /\ Len(ContinueCalls) >= i
                    /\ ContinueCalls[i].tool_call_id = RequestId(c)
                    /\ LET result == ContinueCalls[i].result.json
                       IN  /\ result.number_of_payments = loan.term * 12
                           /\ NearestCent(result.monthly_payment, loan.principal,
                                          result.number_of_payments)
                           /\ result.total_payment = 100 * loan.principal
                           /\ result.total_interest = 0
                           /\ st_errors = <<>> =>
                                  LastTurn("func").function_results[i].result = result

\* 12000 over one year: 1000.00 a month, no interest; 1000 over three years:
\* 27.78 a month.
C21_Witness ==
    /\ FuncStarted
    /\ st_errors = <<>>
    /\ Len(RegisteredRequests) = 2
    /\ RequestLoan(RegisteredRequests[1]) = [principal |-> 12000, rate |-> 0, term |-> 1]
    /\ RequestLoan(RegisteredRequests[2]) = [principal |-> 1000, rate |-> 0, term |-> 3]
    /\ LastTurn("func").function_results[1].result.monthly_payment = 100000
    /\ LastTurn("func").function_results[1].result.total_interest = 0
    /\ LastTurn("func").function_results[2].result.monthly_payment = 2778
    /\ LastTurn("func").function_results[2].result.total_payment = 100000

\* The other choice of the "Handoff Execution" radio.
OtherMode(mode) == IF mode = "server" THEN "client" ELSE "server"

\* The log of remote calls with the handoff_execution argument of every start
\* call set to mode.
WithMode(log, mode) ==
    [i \in 1..Len(log) |->
        IF log[i].op = "start" THEN [log[i] EXCEPT !.handoff_execution = mode] ELSE log[i]]

\* The submission of this step on the orchestration page, made with the other
\* handoff mode and answered by the service in the same way, appends the same
\* turns and makes the same remote calls but for the handoff_execution argument.
C22_Step ==
    (event'.page = "orch" /\ calls' # <<>>) =>
        \A env \in SessionOrchEnvs :
            LET mode == event'.handoff_mode
                twin == OrchRun(event'.prompt, OtherMode(mode), env)
            IN  (calls' = WithMode(twin.calls, mode)) =>
                    /\ hist'.orch = hist.orch \o twin.turns
                    /\ Len(twin.calls) = Len(calls')
                    /\ st_errors' = twin.errors
                    /\ \A i \in 1..Len(calls') :
                          calls'[i].op = "start" =>
                              /\ calls'[i].handoff_execution = mode
                              /\ twin.calls[i].handoff_execution = OtherMode(mode)

FuncReadable == FuncStarted /\ OnlyNormalizes /\ AllHaveContent(StartPayload)

(***************************************************************************)
(* C23. The text of the function-calls page's assistant turn is the text   *)
(* of the start payload when the payload has no function-call request;     *)
(* otherwise it is the concatenation, in call order, of the texts of the   *)
(* continue payloads only. When none of the requests is registered, no     *)
(* continue call is made and the text is empty, whatever text the start    *)
(* payload carried.                                                        *)
(***************************************************************************)
C23_TurnTextSource ==
    FuncReadable =>
        /\ st_errors = <<>>
        /\ LastTurn("func").content =
              IF RequestsOf(StartPayload) = <<>>
              THEN ExpectedText(MessagesOf(StartPayload))
              ELSE ExpectedText(MessagesOf(ContinuePayloads(calls)))
        /\ (RequestsOf(StartPayload) # <<>> /\ RegisteredRequests = <<>>) =>
              /\ ContinueCalls = <<>>
              /\ LastTurn("func").content = ""

\* The tool executions of a payload that the code page records: named
\* code_interpreter and carrying an info field.
CodeExecutions(outputs) ==
    SelectSeq(outputs, LAMBDA o : /\ IsType(o, "tool.execution")
                                  /\ "name" \in DOMAIN o
                                  /\ o.name = "code_interpreter"
                                  /\ "info" \in DOMAIN o)

CodeAnswered == event.page = "code" /\ StartAnswered /\ AllHaveContent(StartPayload)

(***************************************************************************)
(* C24. The code_blocks of the code-interpreter page's assistant turn hold *)
(* exactly one {code, output} record for each tool-execution item of the   *)
(* payload that is named code_interpreter and has an info field, in        *)
(* payload order; code and output are the info's code and code_output,     *)
(* read by attribute or by key, and the empty string when absent. Items of *)
(* another name or type add no record.                                     *)
(***************************************************************************)
C24_CodeBlocks ==
    CodeAnswered =>
        LET items == CodeExecutions(StartPayload)
        IN  /\ st_errors = <<>>
            /\ LastTurn("code").code_blocks =
                  [i \in 1..Len(items) |->
                      [code |-> FieldOr(items[i].info, "code"),
                       output |-> FieldOr(items[i].info, "code_output")]]

\* Three tool executions, of which the web search and the one without info
\* add nothing: the blocks are those of the attribute-read and the key-read info.
C24_Witness ==
    /\ CodeAnswered
    /\ Len(ToolItems(StartPayload)) = 3
    /\ \E i \in 1..3 : StartPayload[i].name = "web_search"
    /\ LastTurn("code").code_blocks = << [code |-> "c2", output |-> ""],
                                         [code |-> "c1", output |-> "o1"] >>

\* A code_interpreter execution without info next to one with an empty info.
C24_WitnessNoInfo ==
    /\ CodeAnswered
    /\ Len(ToolItems(StartPayload)) = 2
    /\ "info" \notin DOMAIN StartPayload[1]
    /\ LastTurn("code").code_blocks = << [code |-> "", output |-> ""] >>

\* The history h is made of groups of one user turn followed by n assistant
\* turns.
Grouped(h, n) ==
    /\ Len(h) % (n + 1) = 0
    /\ \A i \in 1..Len(h) :
          h[i].role = IF i % (n + 1) = 1 THEN "user" ELSE "assistant"

(***************************************************************************)
(* C25. After every completed handler run the histories of the code, web   *)
(* search, orchestration and function-calls pages are made of consecutive  *)
(* (user, assistant) pairs, and the image history of consecutive (user,    *)
(* assistant, assistant) triples: no user turn is left without its         *)
(* assistant turn(s).                                                      *)
(***************************************************************************)
C25_TurnGroups ==
    /\ \A f \in TextFeatures : Grouped(hist[f], 1)
    /\ Grouped(hist["image"], num_images_to_generate)

\* A triple on the image page whose two rounds failed, then a pair on the
\* function-calls page that ends in an error turn.
C25_Witness ==
    /\ Len(hist["image"]) = 3
    /\ hist["image"][2].content = "Error generating image 1: timeout"
    /\ hist["image"][3].content = "Error generating image 2: timeout"
    /\ Len(hist["func"]) = 2
    /\ event.page = "func"
    /\ st_errors # <<>>
    /\ LastTurn("func").content = st_errors[1]

\* The message of the exception the executor of a request raises.
RaiseMsg(c) ==
    IF RequestArgs(c).shape # "dict" THEN NoGetMsg ELSE ExecutorResult(c).msg

\* The executor of the i-th registered request is the first thing that raises:
\* the executors and the continue calls before it succeeded.
FirstRaise(i) ==
    /\ ExecutorResult(RegisteredRequests[i]).raised
    /\ \A j \in 1..(i - 1) :
          /\ ~ExecutorResult(RegisteredRequests[j]).raised
          /\ j <= Len(ContinueCalls)
          /\ ContinueCalls[j].res.ok

(***************************************************************************)
(* C26. When an executor, or anything else, raises while the pending       *)
(* function calls are processed (calculate_loan_payment with term_years    *)
(* defaulting to 0, parsed arguments that are no mapping, a failing        *)
(* continue call), the remaining pending calls are not processed, no       *)
(* further continue call is issued, and the single assistant turn appended *)
(* is an error turn with empty function_calls and function_results.        *)
(***************************************************************************)
C26_RaiseAborts ==
    (FuncStarted /\ AllHaveContent(StartPayload)) =>
        /\ \A i \in 1..Len(RegisteredRequests) :
              FirstRaise(i) =>
                  /\ Len(ContinueCalls) = i - 1
                  /\ st_errors = << "Error: " \o RaiseMsg(RegisteredRequests[i]) >>
                  /\ Len(hist["func"]) = 2
                  /\ LastTurn("func") = ErrorTurnOf("func", RaiseMsg(RegisteredRequests[i]))
        /\ \A k \in 1..Len(ContinueCalls) :
              ~ContinueCalls[k].res.ok =>
                  /\ k = Len(ContinueCalls)
                  /\ Len(hist["func"]) = 2
                  /\ LastTurn("func") = ErrorTurnOf("func", ContinueCalls[k].res.msg)

\* A rate request answered, then a loan request whose arguments are the
\* number 5, then a well-formed loan request that is never processed.
C26_Witness ==
    /\ FuncStarted
    /\ Len(RegisteredRequests) = 3
    /\ RequestId(RegisteredRequests[1]) = "tc1"
    /\ RequestId(RegisteredRequests[2]) = "tc9"
    /\ RequestId(RegisteredRequests[3]) = "tc5"
    /\ FirstRaise(2)
    /\ Len(ContinueCalls) = 1
    /\ LastTurn("func").content = "Error: object has no attribute 'get'"
    /\ LastTurn("func").function_calls = <<>>

\* A loan request without usable arguments: term_years defaults to 0.
C26_WitnessZeroTerm ==
    /\ FuncStarted
    /\ Len(RegisteredRequests) = 2
    /\ RequestId(RegisteredRequests[1]) = "tc3"
    /\ FirstRaise(1)
    /\ ContinueCalls = <<>>
    /\ LastTurn("func") = ErrorTurnOf("func", "division by zero")

\* The ids of the function-call requests of a payload.
RequestIds(outputs) ==
    { RequestId(RequestsOf(outputs)[i]) : i \in 1..Len(RequestsOf(outputs)) }

(***************************************************************************)
(* C27. The function-calls page processes one round of function calls     *)
(* only: the requests of a continue payload are never executed or          *)
(* answered, a submission issues at most one start call and at most k      *)
(* continue calls, k the number of requests of the start payload, and a    *)
(* submission that started a conversation ends with exactly one assistant  *)
(* turn appended.                                                          *)
(***************************************************************************)
C27_OneRound ==
    (event.page = "func" /\ StartIndexes(calls) # {}) =>
        /\ Cardinality(StartIndexes(calls)) = 1
        /\ Len(hist["func"]) = 2
        /\ hist["func"][1] = [role |-> "user", content |-> event.prompt]
        /\ hist["func"][2].role = "assistant"
        /\ StartAnswered =>
              /\ Len(ContinueCalls) <= Len(RequestsOf(StartPayload))
              /\ \A i \in 1..Len(ContinueCalls) :
                    ContinueCalls[i].tool_call_id \in RequestIds(StartPayload)
              /\ Len(hist["func"][2].function_calls) \in {0, Len(RequestsOf(StartPayload))}
              /\ Len(hist["func"][2].function_results) <= Len(ContinueCalls)

\* Two requests answered by continue payloads that each carry a further
\* request: two continue calls, neither for the further request.
C27_Witness ==
    /\ FuncStarted
    /\ st_errors = <<>>
    /\ Len(RequestsOf(StartPayload)) = 2
    /\ Len(ContinueCalls) = 2
    /\ \A i \in 1..2 : RequestIds(ContinueCalls[i].res.outputs) = {"tc0"}
    /\ \A i \in 1..2 : ContinueCalls[i].tool_call_id # "tc0"
    /\ LastTurn("func").content = "r1r2"
    /\ Len(LastTurn("func").function_results) = 2

\* The agents of the orchestration page, by the names they are created with.
OrchAgents == {"Finance Agent", "Web Search Agent", "Calculator Agent", "Graph Agent"}

\* The name the agent with the id was created with in this run.
CreatedName(id) ==
    calls[CHOOSE i \in 1..Len(calls) :
              calls[i].op = "create" /\ calls[i].res.ok /\ calls[i].res.id = id].name

UpdateCalls == SelectSeq(calls, LAMBDA c : c.op = "update")

\* The handoff edges the update calls of this run configure.
HandoffEdges ==
    UNION { { << CreatedName(UpdateCalls[i].agent_id), CreatedName(UpdateCalls[i].handoffs[j]) >> :
                j \in 1..Len(UpdateCalls[i].handoffs) } :
            i \in 1..Len(UpdateCalls) }

\* The handoff targets of each agent.
HandoffTargets ==
    [a \in OrchAgents |->
        CASE a = "Finance Agent" -> {"Web Search Agent", "Calculator Agent", "Graph Agent"}
          [] a = "Web Search Agent" -> {"Calculator Agent", "Graph Agent"}
          [] a = "Calculator Agent" -> {"Graph Agent"}
          [] OTHER -> {}]

\* The handoff chains of n hops that start at the finance agent.
RECURSIVE Chains(_)
Chains(n) ==
    IF n = 0 THEN { << "Finance Agent" >> }
    ELSE UNION { { Append(p, e[2]) : e \in { d \in HandoffEdges : d[1] = p[Len(p)] } } :
                 p \in Chains(n - 1) }

Provisioned ==
    /\ event.page = "orch"
    /\ Len(UpdateCalls) = 3
    /\ \A i \in 1..3 : UpdateCalls[i].res.ok

(***************************************************************************)
(* C28. The handoff graph the orchestration page configures is acyclic:    *)
(* finance hands off to web_search, calculator and graph, web_search to    *)
(* calculator and graph, calculator to graph, graph to no agent. Every     *)
(* handoff chain from the finance agent visits an agent at most once and   *)
(* has at most 3 hops.                                                     *)
(***************************************************************************)
C28_AcyclicHandoffs ==
    (event.page = "orch" /\ UpdateCalls # <<>>) =>
        /\ \A e \in HandoffEdges : e[2] \in HandoffTargets[e[1]]
        /\ Provisioned =>
              \A a \in OrchAgents : { e[2] : e \in { d \in HandoffEdges : d[1] = a } }
                                        = HandoffTargets[a]
        /\ Chains(4) = {}
        /\ \A n \in 1..3 : \A p \in Chains(n) :
              \A i, j \in 1..(n + 1) : i # j => p[i] # p[j]

\* All three updates made: the longest chain runs finance, web search,
\* calculator, graph.
C28_Witness ==
    /\ Provisioned
    /\ Cardinality(HandoffEdges) = 6
    /\ Chains(3) = { << "Finance Agent", "Web Search Agent",
                        "Calculator Agent", "Graph Agent" >> }
    /\ Cardinality(Chains(2)) = 3

\* The step is a press of the submit button of a feature page.
SubmitStep == event'.page \in Features /\ event'.key # ClearKey(event'.page)

\* A step taken while the API key is empty, or a submission with an empty
\* prompt, makes no remote call and changes no history.
C29_Step ==
    (api_key = "" \/ (SubmitStep /\ event'.prompt = "")) =>
        /\ calls' = <<>>
        /\ hist' = hist

(***************************************************************************)
(* C29. While the stored API key is empty, and whenever a submission is    *)
(* made with an empty prompt, a feature page issues no remote call (create *)
(* agent, start or continue conversation, download file) and leaves every  *)
(* feature history unchanged.                                              *)
(***************************************************************************)
C29_NoCallNoTurn == [][C29_Step]_vars

\* A submission of the prompt "p" on the function-calls page with the key
\* removed, after the code page stored a pair: nothing called, nothing added.
C29_Witness ==
    /\ api_key = ""
    /\ event.page = "func"
    /\ event.key # ClearKey("func")
    /\ event.prompt = "p"
    /\ calls = <<>>
    /\ hist["func"] = <<>>
    /\ Len(hist["code"]) = 2

\* A submission with an empty prompt while the key is set.
C29_WitnessEmptyPrompt ==
    /\ api_key # ""
    /\ event.page = "image"
    /\ event.key # ClearKey("image")
    /\ event.prompt = ""
    /\ calls = <<>>
    /\ hist["image"] = <<>>
    /\ Len(hist["web"]) = 2

\* The image_generation tool-file sub-items of a payload, in payload order.
ImageFiles(outputs) ==
    SelectSeq(SubItemsOf(outputs),
              LAMBDA x : /\ IsType(x, "tool_file")
                         /\ "tool" \in DOMAIN x
                         /\ x.tool = "image_generation")

\* The file id of the last image_generation tool-file sub-item, None without one.
LastFileId(outputs) ==
    LET files == ImageFiles(outputs)
    IN  IF files = <<>> \/ "file_id" \notin DOMAIN files[Len(files)] THEN None
        ELSE files[Len(files)].file_id

\* The file reference of round k: at most one download, made only for a
\* non-empty file id, that of the last image_generation tool-file sub-item.
RoundFile(k) ==
    LET outputs == calls[RoundStarts[k]].res.outputs
    IN  /\ Cardinality(RoundDownloads(k)) <= 1
        /\ \A i \in RoundDownloads(k) :
              /\ calls[i].file_id = LastFileId(outputs)
              /\ calls[i].file_id \notin {None, ""}

\* Round k appended a normal turn without image data.
RoundTurnWithoutImage(k) ==
    /\ "image_file_name" \in DOMAIN RoundTurn(k)
    /\ RoundTurn(k).role = "assistant"
    /\ RoundTurn(k).image_data = None

\* The download of round k failed.
DownloadFailed(k) == \E i \in RoundDownloads(k) : ~calls[i].res.ok

(***************************************************************************)
(* C30. Each round-trip of the image page keeps at most one file           *)
(* reference: of several image_generation tool-file sub-items the file id  *)
(* of the last one in payload order is used; download-file is called at    *)
(* most once per round-trip and only for a non-empty file id; a failing    *)
(* download still appends a normal assistant turn that carries the text of *)
(* the payload and no image data, not an error turn.                       *)
(***************************************************************************)
C30_OneFileReference ==
    ImageStarted =>
        \A k \in 1..Len(RoundStarts) :
            LET res == calls[RoundStarts[k]].res
            IN  (res.ok /\ AllHaveContent(res.outputs)) =>
                    /\ RoundFile(k)
                    /\ DownloadFailed(k) =>
                          /\ RoundTurnWithoutImage(k)
                          /\ RoundTurn(k).content = ExpectedText(MessagesOf(res.outputs))

====
